---- MODULE Spec2Model ----
(***************************************************************************)
(* Model of github.com/antongulenko/golib: the StopChan primitive, the     *)
(* WaitForAny multi-wait, TaskGroup orchestration and the built-in tasks.  *)
(***************************************************************************)
EXTENDS Integers, Sequences, FiniteSets, TLC

\* ------------------------------------------------------------------ bounds
NumChans == 3
NumProcs == 2
MaxCalls == 2
MaxList == 2
MaxStops == 2
MaxIter == 2
MaxCap == 3
MaxPush == 4
MaxLines == 3
MaxWrites == 2
MaxData == 3
MaxText == 5
MaxPairs == 2
MaxEntries == 3
MaxConfigure == 3
MaxRunes == 3
MaxWaitCalls == 3
MaxAccepts == 2
MaxTriggers == 2
MaxCondCalls == 3
MaxBroadcasts == 2

\* --------------------------------------------------------------- constants
\* The nil value of StopChan (StopChan{}): a handle without a state block.
NilHandle == 0

Chans == 1..NumChans
Handles == {NilHandle} \cup Chans
\* Generic workers: NumChans stop workers of a task group plus one more.
AllProcs == 1..(NumChans + 1)
Procs == 1..NumProcs

\* error values; Nil is the absent error
Nil == "nil"
\* the package logger and the standard logger of logrus
Loggers == {"Log", "StandardLogger"}
Errs == {"e1", "e2"}
ErrOrNil == {Nil} \cup Errs

StopOps == {"Stop", "StopErr", "StopFunc", "StopErrFunc"}
QueryOps == {"Stopped", "Err", "Wait", "WaitChan", "WaitTimeout",
             "IfStopped", "IfNotStopped", "IfElseStopped", "Execute"}

VARIABLES
    \* ---- the state block of every StopChan (struct stopChan)
    stopped,    \* stopped[c]: the stopped flag
    err,        \* err[c]: the stored error
    lock,       \* lock[c]: 0 when cond.L is free, else the worker holding it
    waitChan,   \* waitChan[c]: "nil" | "open" | "closed"
    bridge,     \* bridge[c]: the goroutine spawned by WaitChan: "none" | "waiting" | "woken" | "done"
    spawned,    \* spawned[c]: number of bridging goroutines spawned for c
    trans,      \* trans[c]: the error arguments of the calls that flipped the flag, in order
    \* ---- generic workers calling the StopChan API
    pc,         \* "idle" | "lock" | "perform" | "flip" | "unlock" | "callback" | "select" | "done"
    op,         \* the called method
    recv,       \* the receiver handle
    fn,         \* the perform argument of StopErrFunc: "none" | "closure" | "user" | "taskStop"
    arg,        \* the error the perform function returns
    ret,        \* the returned value
    ran,        \* the caller-supplied function has been executed in this call
    calls,      \* number of calls begun by the workers of the environment
    \* ---- one call of WaitForAny(channels)
    channels,   \* the list of StopChan handles
    wfaPc,      \* "none" | "call" | "build" | "afterLoop" | "select" | "done"
    wfaI,       \* position of the range loop in channels (1-based)
    validCases, \* the validCases counter
    wfaRet,     \* the returned index (0-based), -1 for none
    \* ---- one call of TaskGroup.WaitAndStop on a group of NoopTasks
    tgPc,       \* "none" | "start" | "waitAny" | "stopAll" | "stopWait" | "wgWait" | "collect" | "done"
    stopWorker, \* stopWorker[i]: the goroutine of TaskGroup.Stop for task i: "none" | "spawned" | "called" | "done"
    tgReason,   \* the local variable reason
    collectI,   \* position of the range loop of CollectErrors (1-based)
    numErrors,  \* the numErrors counter
    tgRet,      \* the returned task (its position in the group, 1-based), 0 before the return
    tgEnvChan,  \* the task whose StopChan the environment stops, 0 before it does
    tgTimeout,  \* the timeout parameter of WaitAndStop is > 0
    watchdog,   \* the timer of time.AfterFunc: "none" | "armed" | "fired"
    abortAt,    \* the position of WaitAndStop (tgPc) at which the watchdog aborted the process, "none" before
    \* ---- one task built on a LoopTask
    kind,       \* "Loop" | "TCPListener" | "CliLogBox" | "Cleanup" | "Command"
    cfgOk,      \* the configuration lets Start succeed
    hasHook,    \* the optional callback is set: StopHook, or Cleanup of a CleanupTask
    taskPc,     \* "none" | "new" | "started"
    loopObj,    \* the *LoopTask of the task is not nil
    loopChan,   \* the StopChan field of the LoopTask
    startRet,   \* the StopChan returned by Start
    listener,   \* task.listener: "nil" | "open"
    loopPc,     \* the worker goroutine: "none" | "check" | "checking" | "inLoop" | "stopErr" | "sleep" | "handler" | "hook" | "exited";
                \* of a Command: "procWait" | "cmdStopErr" | "exited"
    iterations, \* invocations of Loop, counted up to MaxIter
    results,    \* the values returned by the first MaxIter invocations of Loop
    hookRuns,   \* executions of StopHook, counted up to MaxIter
    fault,      \* a call has panicked
    \* ---- a CleanupTask: its sync.Once and its Cleanup function
    cleanupRuns, \* executions of Cleanup, counted up to MaxIter
    onceDone,   \* once.done
    onceM,      \* once.m: 0 when free, else the worker holding it
    \* ---- a Command and its subprocess
    procState,  \* the subprocess: "none" | "running" | "exit0" | "exitN" | "signaled"
    cmdProc,    \* command.Proc is not nil
    cmdState,   \* command.State: "nil" | "success" | "failure" (what State.Success() gives)
    cmdStateErr, \* command.StateErr
    sighup,     \* SIGHUP has been sent to the subprocess
    \* ---- a LogBuffer and the latest call of PrintMessages
    lbCap,      \* message_buffer, the size of the ring
    ring,       \* ring[i], i in 0..lbCap-1: the Value of the element, 0 for nil; message k is the k-th pushed
    ringPos,    \* buf.messages: the element written next
    pushCount,  \* number of PushMessage calls
    out,        \* what the latest PrintMessages call wrote to w
    printed,    \* PrintMessages has been called
    printArg,   \* its max_num argument
    printAt,    \* the value of pushCount at that call
    \* ---- one call of CliLogBox.Update and its newlineCounter
    updPc,      \* "none" | "content" (inside writeContent) | "done"
    updLines,   \* the local variable lines
    logLines,   \* box.LogLines
    ncMax,      \* counter.max_lines
    ncNum,      \* counter.num
    ncTrunc,    \* counter.truncated
    ncOut,      \* the bytes the counter has written to counter.out
    content,    \* the bytes writeContent has passed to Write so far
    writes,     \* number of Write calls made by writeContent
    sepDots,    \* the separator line: "none" | "absent" | "plain" | "dots"
    \* ---- arguments and results of the functions of flags.go
    inKeys,     \* keys of the key-value pairs given to a function
    inValues,   \* values of these pairs
    inList,     \* a list of strings given to FormatStringSlice
    text,       \* a string: given to a parse function, or made by a format function
    textFrom,   \* "none" | "input" | "FormatOrderedMap" | "FormatStringSlice"
    parsed,     \* "none" | "ParseOrderedMap" | "ParseSlice" | "ParseMap"
    outKeys,    \* keys returned by ParseOrderedMap
    outValues,  \* values returned by ParseOrderedMap
    outList,    \* result of ParseSlice
    outMap,     \* result of ParseMap
    kvKeys,     \* KeyValueStringSlice.Keys
    kvValues,   \* KeyValueStringSlice.Values
    delKey,     \* "none", or <<key>> after Delete(key)
    kvBefore,   \* <<Keys, Values>> before Delete(key)
    \* ---- the Log* variables of the package and the configured loggers
    LogVerbose, \* the flag -v
    LogQuiet,   \* the flag -q
    LogVeryQuiet, \* the flag -qq
    LogFile,    \* LogFile is not empty
    level,      \* level of every logger
    hooks,      \* number of file hooks of every logger
    configured, \* number of ConfigureLogger calls for every logger
    \* ---- one call of Substring
    subStr,     \* the argument str, a sequence of bytes
    subFrom,    \* the argument iFrom
    subTo,      \* the argument iTo
    subDone,    \* Substring has returned
    subResult,  \* its result
    \* ---- the callback of CollectErrors
    collected,  \* the errors passed to the callback, in order, with the index of their StopChan
    \* ---- the accept loop of a TCPListenerTask or UDPListenerTask
    accepted,   \* number of connections accepted (packets received) without error
    connHandled, \* per connection: number of invocations of task.Handler
    connClosed, \* per connection: number of calls of conn.Close()
    body,       \* the function the StopChan method executes: "none" | "handler" | "close"
    hpc,        \* a stop-check helper called by the Handler or the StopHook: "none" | "lock" | "done" | "hookDone"
    hop,        \* the helper called
    \* ---- the listening socket of a listener task
    sockCloses, \* number of calls of listener.Close() on the listening socket
    acceptErr,  \* the error AcceptTCP/ReadFromUDP returned: "none" | "closed" | "other"
    logged,     \* the kinds of error the Loop has passed to Log.Errorln
    \* ---- the outputs of the loggers of a LogBuffer
    loggerOut,  \* l.Out of every logger: "stderr" | "noop"
    savedOut,   \* buf.originalLoggerOut of every logger: "unset" | "stderr" | "noop"
    \* ---- a GinTask
    ginPc,      \* the worker of GinTask.Start: "none" | "spawned" | "serving" | "served" | "hooked" | "stopErr" | "exited"
    server,     \* task.server: "nil" | "set"
    shutting,   \* server.Shutdown has been called on the server
    serveErr,   \* the error ListenAndServe returned
    shutdownErr, \* task.shutdownErr
    ginHookSet, \* task.ShutdownHook is not nil
    ginHookRuns,\* number of calls of the ShutdownHook
    \* ---- a CliLogBoxTask: the trigger queue and the refreshes
    updateTrigger, \* number of values in the channel t.updateTrigger
    triggers,   \* number of calls of TriggerUpdate
    trigOut,    \* what the last TriggerUpdate did: "none" | "sent" | "default" | "blocked"
    wake,       \* the case that ended the last interval sleep: "none" | "timer" | "stop" | "trigger"
    finalRefreshes, \* number of calls of updateBox made by the StopHook
    originalOut,\* originalOut[l]: the Out of logger l when the task was made
    \* ---- a BoolCondition and its callers
    Val,        \* cond.Val
    condL,      \* cond.L: 0, or the worker that holds the mutex
    notifyList, \* the workers blocked in cond.Cond.Wait(), in the order of their arrival
    bcPc,       \* bcPc[p]: "idle" | "lock" | "locked" | "waiting" | "woken" | "unlock" | "done"
    bcOp,       \* bcOp[p]: the method worker p is in, or was in last
    bcCalls,    \* number of calls made
    unsetSince, \* number of returns of WaitAndUnset since the last Broadcast or Signal
    wakeups,    \* number of workers taken from notifyList by Broadcast and Signal
    \* ---- a TimeoutCond and its callers
    cn,         \* c.n: the notification channel in use; channels are numbered in the order of their installation
    closes,     \* closes[h]: number of close() calls on channel h
    tcL,        \* c.L: 0, or the worker that holds the lock
    tcPc,       \* tcPc[p]: "idle" | "held" | "captured" | "blocked" | "woken" | "returned" | "swapped"
    tcOp,       \* tcOp[p]: the method worker p is in, or was in last
    tcHandle,   \* tcHandle[p]: the channel a waiter captured, the channel a Broadcast took out
    tcWoke,     \* tcWoke[p]: what ended the last wait of p: "none" | "notify" | "timeout"
    tcCalls     \* number of calls made

chanVars == <<stopped, err, lock, waitChan, bridge, spawned, trans>>
procVars == <<pc, op, recv, fn, arg, ret, ran, calls>>
wfaVars == <<channels, wfaPc, wfaI, validCases, wfaRet>>
\* everything but the StopChan blocks and the generic workers
wdVars == <<tgTimeout, watchdog, abortAt>>
tgVars == <<tgPc, stopWorker, tgReason, collectI, numErrors, tgRet, tgEnvChan, wdVars>>
onceVars == <<cleanupRuns, onceDone, onceM>>
\* the state only one kind of task has
cmdVars == <<procState, cmdProc, cmdState, cmdStateErr, sighup>>
kindVars == <<onceVars, cmdVars>>
taskVars == <<kind, cfgOk, hasHook, taskPc, loopObj, loopChan, startRet, listener,
              loopPc, iterations, results, hookRuns, fault, kindVars>>
lbVars == <<lbCap, ring, ringPos, pushCount, out, printed, printArg, printAt>>
\* the state of the parts that use no StopChan
updVars == <<updPc, updLines, logLines, ncMax, ncNum, ncTrunc, ncOut, content, writes, sepDots>>
flVars == <<inKeys, inValues, inList, text, textFrom, parsed, outKeys, outValues, outList, outMap,
            kvKeys, kvValues, delKey, kvBefore>>
logVars == <<LogVerbose, LogQuiet, LogVeryQuiet, LogFile, level, hooks, configured>>
subVars == <<subStr, subFrom, subTo, subDone, subResult>>
ceVars == <<collected>>
netVars == <<accepted, connHandled, connClosed, body, hpc, hop>>
sockVars == <<sockCloses, acceptErr, logged>>
boxVars == <<loggerOut, savedOut>>
ginVars == <<ginPc, server, shutting, serveErr, shutdownErr, ginHookSet, ginHookRuns>>
trigVars == <<updateTrigger, triggers, trigOut, wake, finalRefreshes, originalOut>>
bcVars == <<Val, condL, notifyList, bcPc, bcOp, bcCalls, unsetSince, wakeups>>
tcVars == <<cn, closes, tcL, tcPc, tcOp, tcHandle, tcWoke, tcCalls>>
miscVars == <<lbVars, updVars, flVars, logVars, subVars, ceVars, netVars, sockVars, boxVars, ginVars, trigVars, bcVars, tcVars>>
envVars == <<wfaVars, tgVars, taskVars, miscVars>>
vars == <<stopped, err, lock, waitChan, bridge, spawned, trans,
          pc, op, recv, fn, arg, ret, ran, calls,
          channels, wfaPc, wfaI, validCases, wfaRet,
          tgPc, stopWorker, tgReason, collectI, numErrors, tgRet, tgEnvChan,
          tgTimeout, watchdog, abortAt,
          kind, cfgOk, hasHook, taskPc, loopObj, loopChan, startRet, listener,
          loopPc, iterations, results, hookRuns, fault,
          cleanupRuns, onceDone, onceM,
          procState, cmdProc, cmdState, cmdStateErr, sighup,
          lbCap, ring, ringPos, pushCount, out, printed, printArg, printAt,
          updPc, updLines, logLines, ncMax, ncNum, ncTrunc, ncOut, content, writes, sepDots,
          inKeys, inValues, inList, text, textFrom, parsed, outKeys, outValues, outList, outMap,
          kvKeys, kvValues, delKey, kvBefore,
          LogVerbose, LogQuiet, LogVeryQuiet, LogFile, level, hooks, configured,
          subStr, subFrom, subTo, subDone, subResult,
          collected,
          accepted, connHandled, connClosed, body, hpc, hop,
          sockCloses, acceptErr, logged,
          loggerOut, savedOut,
          ginPc, server, shutting, serveErr, shutdownErr, ginHookSet, ginHookRuns,
          updateTrigger, triggers, trigOut, wake, finalRefreshes, originalOut,
          Val, condL, notifyList, bcPc, bcOp, bcCalls, unsetSince, wakeups,
          cn, closes, tcL, tcPc, tcOp, tcHandle, tcWoke, tcCalls>>

\* NewStopChan: a fresh, running state block.
InitChans ==
    /\ stopped = [c \in Chans |-> FALSE]
    /\ err = [c \in Chans |-> Nil]
    /\ lock = [c \in Chans |-> 0]
    /\ waitChan = [c \in Chans |-> "nil"]
    /\ bridge = [c \in Chans |-> "none"]
    /\ spawned = [c \in Chans |-> 0]
    /\ trans = [c \in Chans |-> <<>>]

InitProcs ==
    /\ pc = [p \in AllProcs |-> "idle"]
    /\ op = [p \in AllProcs |-> "none"]
    /\ recv = [p \in AllProcs |-> NilHandle]
    /\ fn = [p \in AllProcs |-> "none"]
    /\ arg = [p \in AllProcs |-> Nil]
    /\ ret = [p \in AllProcs |-> "none"]
    /\ ran = [p \in AllProcs |-> FALSE]
    /\ calls = 0

\* no WaitForAny call
InitNoWFA ==
    /\ channels = <<>>
    /\ wfaPc = "none"
    /\ wfaI = 0
    /\ validCases = 0
    /\ wfaRet = -1

\* timeout is 0: no watchdog
InitNoWatchdog ==
    /\ tgTimeout = FALSE
    /\ watchdog = "none"
    /\ abortAt = "none"

\* no WaitAndStop call
InitNoTG ==
    /\ InitNoWatchdog
    /\ tgPc = "none"
    /\ stopWorker = [i \in Chans |-> "none"]
    /\ tgReason = -1
    /\ collectI = 0
    /\ numErrors = 0
    /\ tgRet = 0
    /\ tgEnvChan = 0

\* a fresh sync.Once, Cleanup not yet executed
InitOnce ==
    /\ cleanupRuns = 0
    /\ onceDone = FALSE
    /\ onceM = 0

\* a Command that has not been started
InitCommand ==
    /\ procState = "none"
    /\ cmdProc = FALSE
    /\ cmdState = "nil"
    /\ cmdStateErr = Nil
    /\ sighup = FALSE

InitKind == InitOnce /\ InitCommand

\* no task
InitNoTask ==
    /\ InitKind
    /\ kind = "Loop"
    /\ cfgOk = TRUE
    /\ hasHook = FALSE
    /\ taskPc = "none"
    /\ loopObj = FALSE
    /\ loopChan = NilHandle
    /\ startRet = NilHandle
    /\ listener = "nil"
    /\ loopPc = "none"
    /\ iterations = 0
    /\ results = <<>>
    /\ hookRuns = 0
    /\ fault = FALSE

\* no LogBuffer
InitNoLogBuffer ==
    /\ lbCap = 1
    /\ ring = [i \in 0..0 |-> 0]
    /\ ringPos = 0
    /\ pushCount = 0
    /\ out = <<>>
    /\ printed = FALSE
    /\ printArg = 0
    /\ printAt = 0

\* no call of CliLogBox.Update
InitNoUpdate ==
    /\ updPc = "none"
    /\ updLines = 0
    /\ logLines = 0
    /\ ncMax = 0
    /\ ncNum = 0
    /\ ncTrunc = FALSE
    /\ ncOut = <<>>
    /\ content = <<>>
    /\ writes = 0
    /\ sepDots = "none"

\* no results of parse functions and of Delete
InitNoResults ==
    /\ parsed = "none"
    /\ outKeys = <<>>
    /\ outValues = <<>>
    /\ outList = <<>>
    /\ outMap = <<>>
    /\ delKey = "none"
    /\ kvBefore = <<>>

\* no call of a function of flags.go
InitNoFlags ==
    /\ inKeys = <<>>
    /\ inValues = <<>>
    /\ inList = <<>>
    /\ text = <<>>
    /\ textFrom = "none"
    /\ kvKeys = <<>>
    /\ kvValues = <<>>
    /\ InitNoResults

InitNoLogger ==
    /\ LogVerbose = FALSE
    /\ LogQuiet = FALSE
    /\ LogVeryQuiet = FALSE
    /\ LogFile = FALSE
    /\ level = <<>>
    /\ hooks = <<>>
    /\ configured = <<>>

InitNoSubstring ==
    /\ subStr = <<>>
    /\ subFrom = 0
    /\ subTo = 0
    /\ subDone = FALSE
    /\ subResult = <<>>

InitNoCollected ==
    /\ collected = <<>>

InitNoListener ==
    /\ accepted = 0
    /\ connHandled = <<>>
    /\ connClosed = <<>>
    /\ body = "none"
    /\ hpc = "none"
    /\ hop = "none"

InitNoSocket ==
    /\ sockCloses = 0
    /\ acceptErr = "none"
    /\ logged = {}

InitNoBox ==
    /\ loggerOut = [l \in Loggers |-> "stderr"]
    /\ savedOut = [l \in Loggers |-> "unset"]

InitNoGin ==
    /\ ginPc = "none"
    /\ server = "nil"
    /\ shutting = FALSE
    /\ serveErr = Nil
    /\ shutdownErr = Nil
    /\ ginHookSet = FALSE
    /\ ginHookRuns = 0

InitNoTrigger ==
    /\ updateTrigger = 0
    /\ triggers = 0
    /\ trigOut = "none"
    /\ wake = "none"
    /\ finalRefreshes = 0
    /\ originalOut = [l \in Loggers |-> "stderr"]

InitNoBoolCondition ==
    /\ Val = FALSE
    /\ condL = 0
    /\ notifyList = <<>>
    /\ bcPc = [p \in {} |-> "idle"]
    /\ bcOp = [p \in {} |-> "none"]
    /\ bcCalls = 0
    /\ unsetSince = 0
    /\ wakeups = 0

InitNoTimeoutCond ==
    /\ cn = 0
    /\ closes = <<>>
    /\ tcL = 0
    /\ tcPc = [p \in {} |-> "idle"]
    /\ tcOp = [p \in {} |-> "none"]
    /\ tcHandle = [p \in {} |-> 0]
    /\ tcWoke = [p \in {} |-> "none"]
    /\ tcCalls = 0

InitNoMisc == InitNoLogBuffer /\ InitNoUpdate /\ InitNoFlags /\ InitNoLogger /\ InitNoSubstring /\ InitNoCollected /\ InitNoListener /\ InitNoSocket /\ InitNoBox /\ InitNoGin /\ InitNoTrigger /\ InitNoBoolCondition /\ InitNoTimeoutCond

\* ------------------------------------------------------------ StopChan API

\* The error a handle reports: Err() reads s.err without taking the lock.
Err(h) == IF h = NilHandle THEN Nil ELSE err[h]

\* Stopped() as a function of the state (the lock is taken by the callers below).
Stopped(h) == IF h = NilHandle THEN TRUE ELSE stopped[h]

\* The calls a worker can make: method, kind of perform function, its result.
StopCalls ==
    {[op |-> "Stop", fn |-> "none", arg |-> Nil]}
    \cup {[op |-> "StopErr", fn |-> "closure", arg |-> e] : e \in ErrOrNil}
    \cup {[op |-> "StopFunc", fn |-> f, arg |-> Nil] : f \in {"closure", "user"}}
    \cup {[op |-> "StopErrFunc", fn |-> "none", arg |-> Nil]}
    \cup {[op |-> "StopErrFunc", fn |-> "user", arg |-> e] : e \in ErrOrNil}

QueryCalls ==
    {[op |-> o, fn |-> "none", arg |-> Nil] : o \in {"Stopped", "Err", "Wait", "WaitChan", "WaitTimeout"}}
    \cup {[op |-> o, fn |-> "user", arg |-> Nil] : o \in {"IfStopped", "IfNotStopped", "IfElseStopped", "Execute"}}

\* Variant: the nil receiver treated like a running StopChan.
NilReceiverAsRunning(o) ==
    CASE o = "Stopped" -> [ret |-> "false", ran |-> FALSE]
      [] o = "WaitTimeout" -> [ret |-> "true", ran |-> FALSE]
      [] o = "WaitChan" -> [ret |-> "waitChan", ran |-> FALSE]
      [] o = "IfStopped" -> [ret |-> "none", ran |-> FALSE]
      [] o \in {"IfNotStopped", "StopFunc"} -> [ret |-> "none", ran |-> TRUE]
      [] o = "IfElseStopped" -> [ret |-> "notStopped", ran |-> TRUE]
      [] OTHER -> [ret |-> "none", ran |-> (o = "Execute")]

\* What each method does on the nil receiver (the `s == nil` branches).
NilReceiver(o) ==
    CASE o \in StopOps -> [ret |-> "none", ran |-> FALSE]
      [] o = "Stopped" -> [ret |-> "true", ran |-> FALSE]
      [] o = "Err" -> [ret |-> Nil, ran |-> FALSE]
      [] o = "Wait" -> [ret |-> "none", ran |-> FALSE]
      [] o = "WaitChan" -> [ret |-> "closedChan", ran |-> FALSE]
      [] o = "WaitTimeout" -> [ret |-> "false", ran |-> FALSE]
      [] o = "Execute" -> [ret |-> "none", ran |-> TRUE]
      [] o = "IfStopped" -> [ret |-> "none", ran |-> TRUE]
      [] o = "IfNotStopped" -> [ret |-> "none", ran |-> FALSE]
      [] o = "IfElseStopped" -> [ret |-> "stopped", ran |-> TRUE]

\* Entry of a method: the nil check, and the parts done before locking.
BeginCall(p, h, call) ==
    /\ pc[p] = "idle"
    /\ op' = [op EXCEPT ![p] = call.op]
    /\ recv' = [recv EXCEPT ![p] = h]
    /\ fn' = [fn EXCEPT ![p] = call.fn]
    /\ arg' = [arg EXCEPT ![p] = call.arg]
    /\ calls' = IF p \in Procs THEN calls + 1 ELSE calls
    /\ IF h = NilHandle
       THEN /\ ret' = [ret EXCEPT ![p] = NilReceiver(call.op).ret]
            /\ ran' = [ran EXCEPT ![p] = NilReceiver(call.op).ran]
            /\ pc' = [pc EXCEPT ![p] = "done"]
       ELSE /\ ran' = [ran EXCEPT ![p] = FALSE]
            /\ IF call.op = "Err"
               THEN /\ ret' = [ret EXCEPT ![p] = Err(h)]
                    /\ pc' = [pc EXCEPT ![p] = "done"]
               ELSE IF call.op = "WaitChan" /\ waitChan[h] # "nil"
               THEN /\ ret' = [ret EXCEPT ![p] = "waitChan"]
                    /\ pc' = [pc EXCEPT ![p] = "done"]
               ELSE IF call.op = "WaitTimeout" /\ waitChan[h] # "nil"
               THEN /\ ret' = [ret EXCEPT ![p] = "none"]
                    /\ pc' = [pc EXCEPT ![p] = "select"]
               ELSE /\ ret' = [ret EXCEPT ![p] = "none"]
                    /\ pc' = [pc EXCEPT ![p] = "lock"]
    /\ UNCHANGED chanVars

\* Variant: a lock that excludes nobody.
LockFreeAlways(c) == TRUE

\* s.cond.L.Lock() can return: the mutex is free.
LockFree(c) == lock[c] = 0

\* Variant: StopErrFunc without the `if s.stopped { return }` check.
StopLockedNoCheck(p, c) ==
    /\ pc' = [pc EXCEPT ![p] = "perform"]
    /\ lock' = [lock EXCEPT ![c] = p]

\* StopErrFunc after s.cond.L.Lock(): `if s.stopped { return }`.
StopLocked(p, c) ==
    IF stopped[c]
    THEN /\ pc' = [pc EXCEPT ![p] = "done"]
         /\ UNCHANGED lock
    ELSE /\ pc' = [pc EXCEPT ![p] = "perform"]
         /\ lock' = [lock EXCEPT ![c] = p]

\* Variant: WaitChan without the second `if s.waitChan == nil`.
CreateWaitChanNoCheck(c) ==
    /\ waitChan' = [waitChan EXCEPT ![c] = "open"]
    /\ bridge' = [bridge EXCEPT ![c] = "waiting"]
    /\ spawned' = [spawned EXCEPT ![c] = @ + 1]

\* WaitChan under the lock: create the channel and its goroutine once.
CreateWaitChan(c) ==
    IF waitChan[c] = "nil"
    THEN /\ waitChan' = [waitChan EXCEPT ![c] = "open"]
         /\ bridge' = [bridge EXCEPT ![c] = "waiting"]
         /\ spawned' = [spawned EXCEPT ![c] = @ + 1]
    ELSE UNCHANGED <<waitChan, bridge, spawned>>

\* Variant: the tests of IfStopped and IfNotStopped exchanged.
CallbackRunsSwapped(o, c) ==
    CASE o = "IfStopped" -> ~stopped[c]
      [] o = "IfNotStopped" -> stopped[c]
      [] OTHER -> TRUE

\* Whether a callback is executed under the lock: `if !s.stopped { return }`
\* of IfStopped, `if s.stopped { return }` of IfNotStopped; IfElseStopped and
\* Execute always execute one.
CallbackRuns(o, c) ==
    CASE o = "IfStopped" -> stopped[c]
      [] o = "IfNotStopped" -> ~stopped[c]
      [] OTHER -> TRUE

\* The step in which a method holds s.cond.L for the first time.
LockStep(p) ==
    /\ pc[p] = "lock"
    /\ LET c == recv[p]
           o == op[p]
       IN /\ LockFree(c)
          /\ IF o \in StopOps
             THEN /\ StopLocked(p, c)
                  /\ UNCHANGED <<ret, ran, waitChan, bridge, spawned>>
             ELSE IF o = "Stopped"
             THEN /\ ret' = [ret EXCEPT ![p] = IF stopped[c] THEN "true" ELSE "false"]
                  /\ pc' = [pc EXCEPT ![p] = "done"]
                  /\ UNCHANGED <<lock, ran, waitChan, bridge, spawned>>
             ELSE IF o = "Wait"
             THEN /\ stopped[c]
                  /\ pc' = [pc EXCEPT ![p] = "done"]
                  /\ UNCHANGED <<lock, ret, ran, waitChan, bridge, spawned>>
             ELSE IF o = "WaitChan"
             THEN /\ CreateWaitChan(c)
                  /\ ret' = [ret EXCEPT ![p] = "waitChan"]
                  /\ pc' = [pc EXCEPT ![p] = "done"]
                  /\ UNCHANGED <<lock, ran>>
             ELSE IF o = "WaitTimeout"
             THEN /\ CreateWaitChan(c)
                  /\ pc' = [pc EXCEPT ![p] = "select"]
                  /\ UNCHANGED <<lock, ret, ran>>
             ELSE LET runs == CallbackRuns(o, c)
                  IN /\ IF runs
                        THEN /\ lock' = [lock EXCEPT ![c] = p]
                             /\ ran' = [ran EXCEPT ![p] = TRUE]
                             /\ pc' = [pc EXCEPT ![p] = "callback"]
                        ELSE /\ pc' = [pc EXCEPT ![p] = "done"]
                             /\ UNCHANGED <<lock, ran>>
                     /\ ret' = [ret EXCEPT ![p] =
                                  IF o = "IfElseStopped"
                                  THEN (IF stopped[c] THEN "stopped" ELSE "notStopped")
                                  ELSE "none"]
                     /\ UNCHANGED <<waitChan, bridge, spawned>>
    /\ UNCHANGED <<stopped, err, trans, op, recv, fn, arg, calls>>
    /\ UNCHANGED envVars

\* `if perform != nil { s.err = perform() }`
PerformStep(p) ==
    /\ pc[p] = "perform"
    /\ fn[p] # "taskStop"
    /\ IF fn[p] # "none"
       THEN /\ err' = [err EXCEPT ![recv[p]] = arg[p]]
            /\ ran' = [ran EXCEPT ![p] = (fn[p] = "user")]
       ELSE UNCHANGED <<err, ran>>
    /\ pc' = [pc EXCEPT ![p] = "flip"]
    /\ UNCHANGED <<stopped, lock, waitChan, bridge, spawned, trans, op, recv, fn, arg, ret, calls>>
    /\ UNCHANGED envVars

\* `s.stopped = true; s.cond.Broadcast()`
FlipStep(p) ==
    /\ pc[p] = "flip"
    /\ stopped' = [stopped EXCEPT ![recv[p]] = TRUE]
    /\ trans' = [trans EXCEPT ![recv[p]] = Append(@, IF fn[p] = "none" THEN Nil ELSE arg[p])]
    /\ pc' = [pc EXCEPT ![p] = "unlock"]
    /\ UNCHANGED <<err, lock, waitChan, bridge, spawned, op, recv, fn, arg, ret, ran, calls>>
    /\ UNCHANGED envVars

\* the deferred s.cond.L.Unlock() of StopErrFunc
UnlockStep(p) ==
    /\ pc[p] = "unlock"
    /\ lock' = [lock EXCEPT ![recv[p]] = 0]
    /\ pc' = [pc EXCEPT ![p] = "done"]
    /\ UNCHANGED <<stopped, err, waitChan, bridge, spawned, trans, op, recv, fn, arg, ret, ran, calls>>
    /\ UNCHANGED envVars

\* the callback of Execute/IfStopped/IfNotStopped/IfElseStopped returns; deferred Unlock
CallbackReturn(p) ==
    /\ pc[p] = "callback"
    /\ lock' = [lock EXCEPT ![recv[p]] = 0]
    /\ pc' = [pc EXCEPT ![p] = "done"]
    /\ UNCHANGED <<stopped, err, waitChan, bridge, spawned, trans, op, recv, fn, arg, ret, ran, calls>>
    /\ UNCHANGED envVars

\* the select of WaitTimeoutPrecise with wakeupFactor 1: the timer or the wait channel
SelectStep(p) ==
    /\ pc[p] = "select"
    /\ \E timedOut \in BOOLEAN :
          /\ ~timedOut => waitChan[recv[p]] = "closed"
          /\ ret' = [ret EXCEPT ![p] = IF timedOut THEN "true" ELSE "false"]
    /\ pc' = [pc EXCEPT ![p] = "done"]
    /\ UNCHANGED <<chanVars, op, recv, fn, arg, ran, calls>>
    /\ UNCHANGED envVars

\* the goroutine of WaitChan: s.Wait() returns once the StopChan is stopped
BridgeWake(c) ==
    /\ bridge[c] = "waiting"
    /\ LockFree(c)
    /\ stopped[c]
    /\ bridge' = [bridge EXCEPT ![c] = "woken"]
    /\ UNCHANGED <<stopped, err, lock, waitChan, spawned, trans, procVars>>
    /\ UNCHANGED envVars

\* the goroutine of WaitChan: close(c)
BridgeClose(c) ==
    /\ bridge[c] = "woken"
    /\ waitChan' = [waitChan EXCEPT ![c] = "closed"]
    /\ bridge' = [bridge EXCEPT ![c] = "done"]
    /\ UNCHANGED <<stopped, err, lock, spawned, trans, procVars>>
    /\ UNCHANGED envVars

\* the call has returned to its caller
Return(p) ==
    /\ pc[p] = "done"
    /\ pc' = [pc EXCEPT ![p] = "idle"]
    /\ op' = [op EXCEPT ![p] = "none"]
    /\ recv' = [recv EXCEPT ![p] = NilHandle]
    /\ fn' = [fn EXCEPT ![p] = "none"]
    /\ arg' = [arg EXCEPT ![p] = Nil]
    /\ ret' = [ret EXCEPT ![p] = "none"]
    /\ ran' = [ran EXCEPT ![p] = FALSE]
    /\ UNCHANGED <<chanVars, calls>>

\* --------------------------------------------- Spec: workers on one StopChan
\* NumProcs workers make up to MaxCalls calls of any method on an initialized
\* StopChan or on StopChan{}.
SpecHandles == {NilHandle, 1}

Call(p) ==
    /\ calls < MaxCalls
    /\ \E h \in SpecHandles, call \in StopCalls \cup QueryCalls : BeginCall(p, h, call)
    /\ UNCHANGED envVars

ReturnStep(p) == Return(p) /\ UNCHANGED envVars

Init == InitChans /\ InitProcs /\ InitNoWFA /\ InitNoTG /\ InitNoTask /\ InitNoMisc

Next ==
    \/ \E p \in Procs : Call(p)
    \/ \E p \in Procs : LockStep(p)
    \/ \E p \in Procs : PerformStep(p)
    \/ \E p \in Procs : FlipStep(p)
    \/ \E p \in Procs : UnlockStep(p)
    \/ \E p \in Procs : CallbackReturn(p)
    \/ \E p \in Procs : SelectStep(p)
    \/ \E p \in Procs : ReturnStep(p)
    \/ \E c \in Chans : BridgeWake(c)
    \/ \E c \in Chans : BridgeClose(c)

Spec == Init /\ [][Next]_vars

\* ------------------- SpecWait: workers that wait for and stop one StopChan
\* the StopChan made by NewStopChan()
WaitHandle == 1
WaitCalls ==
    {[op |-> o, fn |-> "none", arg |-> Nil] : o \in {"WaitChan", "Wait", "Stop"}}
    \cup {[op |-> "StopErr", fn |-> "closure", arg |-> "e1"]}

CallWait(p) ==
    /\ calls < MaxWaitCalls
    /\ \E call \in WaitCalls : BeginCall(p, WaitHandle, call)
    /\ UNCHANGED envVars

NextWait ==
    \/ \E p \in Procs : CallWait(p)
    \/ \E p \in Procs : LockStep(p)
    \/ \E p \in Procs : PerformStep(p)
    \/ \E p \in Procs : FlipStep(p)
    \/ \E p \in Procs : UnlockStep(p)
    \/ \E p \in Procs : ReturnStep(p)
    \/ \E c \in Chans : BridgeWake(c)
    \/ \E c \in Chans : BridgeClose(c)

SpecWait == Init /\ [][NextWait]_vars

\* The Go scheduler runs every runnable goroutine: a worker inside a method
\* and the goroutine of WaitChan make progress.
FairWait ==
    /\ \A c \in Chans : WF_vars(BridgeWake(c)) /\ WF_vars(BridgeClose(c))
    /\ \A p \in Procs : WF_vars(LockStep(p)) /\ WF_vars(PerformStep(p))
                        /\ WF_vars(FlipStep(p)) /\ WF_vars(UnlockStep(p))

FairSpecWait == SpecWait /\ FairWait

\* -------------------------------------------------------------- WaitForAny

\* Variant: every entry counts as a valid case.
CountsAsValidAll(h) == TRUE

\* `if ch.stopChan == nil {...} else { validCases++ ... }`
CountsAsValid(h) == h # NilHandle

\* Variant: off by one in the validCases check.
NoValidCasesOffByOne(v) == v <= 1

\* `if validCases == 0 { return -1 }`
NoValidCases(v) == v = 0

\* Variant: the case of an uninitialized entry is a closed channel.
CaseReadyNilClosed(h) == IF h = NilHandle THEN TRUE ELSE waitChan[h] = "closed"

\* A select case can fire: the dummy `make(chan error, 1)` of an uninitialized
\* entry never receives; ch.WaitChan() receives once it is closed.
CaseReady(h) == IF h = NilHandle THEN FALSE ELSE waitChan[h] = "closed"

AllNil(list) == \A i \in 1..Len(list) : list[i] = NilHandle

\* `if len(channels) == 0 { return -1 }`
WFAStart ==
    /\ wfaPc = "call"
    /\ IF Len(channels) = 0
       THEN /\ wfaPc' = "done"
            /\ wfaRet' = -1
            /\ UNCHANGED <<wfaI, validCases>>
       ELSE /\ wfaPc' = "build"
            /\ wfaI' = 1
            /\ validCases' = 0
            /\ UNCHANGED wfaRet
    /\ UNCHANGED <<channels, chanVars, procVars>>
    /\ UNCHANGED <<tgVars, taskVars, miscVars>>

\* one iteration of `for _, ch := range channels`, with ch.WaitChan()
WFABuild ==
    /\ wfaPc = "build"
    /\ LET ch == channels[wfaI]
       IN /\ IF CountsAsValid(ch)
             THEN validCases' = validCases + 1
             ELSE UNCHANGED validCases
          /\ IF ch # NilHandle /\ waitChan[ch] = "nil"
             THEN /\ LockFree(ch)
                  /\ CreateWaitChan(ch)
             ELSE UNCHANGED <<waitChan, bridge, spawned>>
    /\ wfaI' = wfaI + 1
    /\ wfaPc' = IF wfaI = Len(channels) THEN "afterLoop" ELSE "build"
    /\ UNCHANGED <<channels, wfaRet, stopped, err, lock, trans, procVars>>
    /\ UNCHANGED <<tgVars, taskVars, miscVars>>

\* after the loop: return -1 or enter reflect.Select
WFAAfterLoop ==
    /\ wfaPc = "afterLoop"
    /\ IF NoValidCases(validCases)
       THEN /\ wfaPc' = "done"
            /\ wfaRet' = -1
       ELSE /\ wfaPc' = "select"
            /\ UNCHANGED wfaRet
    /\ UNCHANGED <<channels, wfaI, validCases, chanVars, procVars>>
    /\ UNCHANGED <<tgVars, taskVars, miscVars>>

\* `choice, _, _ := reflect.Select(cases); return choice`
WFASelect ==
    /\ wfaPc = "select"
    /\ \E j \in 1..Len(channels) :
          /\ CaseReady(channels[j])
          /\ wfaRet' = j - 1
    /\ wfaPc' = "done"
    /\ UNCHANGED <<channels, wfaI, validCases, chanVars, procVars>>
    /\ UNCHANGED <<tgVars, taskVars, miscVars>>

\* ------------------------- SpecWFA: WaitForAny against concurrent stop calls
\* The list holds up to MaxList handles, uninitialized or not, at any
\* positions; a worker makes up to MaxStops stop calls on its StopChans before
\* and during the call.
WFAHandles == {NilHandle} \cup (1..MaxList)
WFALists == UNION {[1..n -> WFAHandles] : n \in 0..MaxList}
WFAStoppers == {1}
WFAStopCalls == {call \in StopCalls : call.op = "Stop" \/ (call.op = "StopErr" /\ call.arg = "e1")}

InitWFA ==
    /\ InitChans
    /\ InitProcs
    /\ channels \in WFALists
    /\ wfaPc = "call"
    /\ wfaI = 0
    /\ validCases = 0
    /\ wfaRet = -1
    /\ InitNoTG
    /\ InitNoTask
    /\ InitNoMisc

StopCall(p) ==
    /\ calls < MaxStops
    /\ \E k \in 1..Len(channels), call \in WFAStopCalls :
          /\ channels[k] # NilHandle
          /\ BeginCall(p, channels[k], call)
    /\ UNCHANGED envVars

NextWFA ==
    \/ WFAStart
    \/ WFABuild
    \/ WFAAfterLoop
    \/ WFASelect
    \/ \E p \in WFAStoppers : StopCall(p)
    \/ \E p \in WFAStoppers : LockStep(p)
    \/ \E p \in WFAStoppers : PerformStep(p)
    \/ \E p \in WFAStoppers : FlipStep(p)
    \/ \E p \in WFAStoppers : UnlockStep(p)
    \/ \E p \in WFAStoppers : ReturnStep(p)
    \/ \E c \in Chans : BridgeWake(c)
    \/ \E c \in Chans : BridgeClose(c)

SpecWFA == InitWFA /\ [][NextWFA]_vars

\* The Go scheduler runs every runnable goroutine: the caller of WaitForAny,
\* the goroutines of WaitChan and a worker inside a stop call all make progress.
FairWFA ==
    /\ WF_vars(WFAStart) /\ WF_vars(WFABuild) /\ WF_vars(WFAAfterLoop) /\ WF_vars(WFASelect)
    /\ \A c \in Chans : WF_vars(BridgeWake(c)) /\ WF_vars(BridgeClose(c))
    /\ \A p \in WFAStoppers : WF_vars(LockStep(p)) /\ WF_vars(PerformStep(p))
                        /\ WF_vars(FlipStep(p)) /\ WF_vars(UnlockStep(p))

FairSpecWFA == SpecWFA /\ FairWFA

\* --------------------------------------------------- TaskGroup.WaitAndStop
\* The group: one NoopTask per StopChan, task i wrapping StopChan i.
Tasks == 1..NumChans

\* NoopTask.Start returns task.Chan.
NoopStart(i) == i

\* The worker of the environment that stops one of the wrapped StopChans.
EnvProc == NumChans + 1

\* `channels := group.StartTasks(&wg)`
TGStartTasks ==
    /\ tgPc = "start"
    /\ channels' = [i \in Tasks |-> NoopStart(i)]
    /\ wfaPc' = "call"
    /\ tgPc' = "waitAny"
    /\ UNCHANGED <<wfaI, validCases, wfaRet, stopWorker, tgReason, collectI,
                   numErrors, tgRet, tgEnvChan, chanVars, procVars>>
    /\ UNCHANGED <<taskVars, miscVars>>
    /\ UNCHANGED wdVars

\* `reason := WaitForAny(channels)` has returned;
\* `if timeout > 0 { time.AfterFunc(timeout, ...) }`
TGAfterWait ==
    /\ tgPc = "waitAny"
    /\ wfaPc = "done"
    /\ tgReason' = wfaRet
    /\ tgPc' = "stopAll"
    /\ watchdog' = IF tgTimeout THEN "armed" ELSE watchdog
    /\ UNCHANGED <<tgTimeout, abortAt>>
    /\ UNCHANGED <<wfaVars, stopWorker, collectI, numErrors, tgRet, tgEnvChan,
                   chanVars, procVars>>
    /\ UNCHANGED <<taskVars, miscVars>>

\* TaskGroup.Stop: `wg.Add(1); go func(task Task) {...}(task)` for every task
TGSpawn ==
    /\ tgPc = "stopAll"
    /\ stopWorker' = [i \in Tasks |-> IF i <= Len(channels) THEN "spawned" ELSE "none"]
    /\ tgPc' = "stopWait"
    /\ UNCHANGED <<wfaVars, tgReason, collectI, numErrors, tgRet, tgEnvChan,
                   chanVars, procVars>>
    /\ UNCHANGED <<taskVars, miscVars>>
    /\ UNCHANGED wdVars

\* the goroutine of TaskGroup.Stop calls task.Stop(): NoopTask.Stop is
\* task.Chan.Stop(); the Stop of a SetupTask or CleanupTask calls no StopChan
TGWorkerStop(i) ==
    /\ stopWorker[i] = "spawned"
    /\ IF channels[i] # NilHandle
       THEN /\ BeginCall(i, channels[i], [op |-> "Stop", fn |-> "none", arg |-> Nil])
            /\ stopWorker' = [stopWorker EXCEPT ![i] = "called"]
       ELSE /\ stopWorker' = [stopWorker EXCEPT ![i] = "done"]
            /\ UNCHANGED <<chanVars, procVars>>
    /\ UNCHANGED <<wfaVars, tgPc, tgReason, collectI, numErrors, tgRet, tgEnvChan>>
    /\ UNCHANGED <<taskVars, miscVars>>
    /\ UNCHANGED wdVars

\* task.Stop() has returned; the deferred wg.Done()
TGWorkerDone(i) ==
    /\ stopWorker[i] = "called"
    /\ Return(i)
    /\ stopWorker' = [stopWorker EXCEPT ![i] = "done"]
    /\ UNCHANGED <<wfaVars, tgPc, tgReason, collectI, numErrors, tgRet, tgEnvChan>>
    /\ UNCHANGED <<taskVars, miscVars>>
    /\ UNCHANGED wdVars

\* Variant: TaskGroup.Stop without its wg.Wait().
AllStopsReturnedNoWait == TRUE

\* wg.Wait() of TaskGroup.Stop can return
AllStopsReturned == \A i \in 1..Len(channels) : stopWorker[i] = "done"

\* TaskGroup.Stop returns
TGStopReturn ==
    /\ tgPc = "stopWait"
    /\ AllStopsReturned
    /\ tgPc' = "wgWait"
    /\ UNCHANGED <<wfaVars, stopWorker, tgReason, collectI, numErrors, tgRet,
                   tgEnvChan, chanVars, procVars>>
    /\ UNCHANGED <<taskVars, miscVars>>
    /\ UNCHANGED wdVars

\* `wg.Wait()` of WaitAndStop: a NoopTask registers no goroutine
TGJoin ==
    /\ tgPc = "wgWait"
    /\ tgPc' = "collect"
    /\ collectI' = 1
    /\ numErrors' = 0
    /\ UNCHANGED <<wfaVars, stopWorker, tgReason, tgRet, tgEnvChan, chanVars, procVars>>
    /\ UNCHANGED <<taskVars, miscVars>>
    /\ UNCHANGED wdVars

\* Variant: every StopChan counts as one with an error.
IsErrorAlways(e) == TRUE

\* `if err := input.Err(); err != nil`
IsError(e) == e # Nil

\* one iteration of the loop of CollectErrors: input.Wait(), input.Err(),
\* numErrors++ and do(err)
TGCollect ==
    /\ tgPc = "collect"
    /\ collectI <= Len(channels)
    /\ LET input == channels[collectI]
       IN IF input # NilHandle
          THEN /\ LockFree(input)
               /\ stopped[input]
               /\ numErrors' = IF IsError(Err(input)) THEN numErrors + 1 ELSE numErrors
               /\ collected' = IF IsError(Err(input))
                               THEN Append(collected, <<collectI, Err(input)>>)
                               ELSE collected
          ELSE UNCHANGED <<numErrors, collected>>
    /\ collectI' = collectI + 1
    /\ UNCHANGED <<wfaVars, tgPc, stopWorker, tgReason, tgRet, tgEnvChan, chanVars, procVars>>
    /\ UNCHANGED <<taskVars, lbVars, updVars, flVars, logVars, subVars, netVars, sockVars, boxVars, ginVars, trigVars, bcVars, tcVars>>
    /\ UNCHANGED wdVars

\* the `return` of CollectErrors when it is called on its own
CollectReturn ==
    /\ tgPc = "collect"
    /\ tgReason = -1
    /\ collectI > Len(channels)
    /\ tgPc' = "collected"
    /\ tgRet' = numErrors
    /\ UNCHANGED <<wfaVars, stopWorker, tgReason, collectI, numErrors, tgEnvChan,
                   chanVars, procVars>>
    /\ UNCHANGED <<taskVars, miscVars>>
    /\ UNCHANGED wdVars

\* `return group[reason], numErrors`
TGReturn ==
    /\ tgPc = "collect"
    /\ collectI > Len(channels)
    /\ IF tgReason \in 0..(Len(channels) - 1)
       THEN /\ tgRet' = tgReason + 1
            /\ tgPc' = "done"
       ELSE /\ tgPc' = "panic"
            /\ UNCHANGED tgRet
    /\ UNCHANGED <<wfaVars, stopWorker, tgReason, collectI, numErrors, tgEnvChan,
                   chanVars, procVars>>
    /\ UNCHANGED <<taskVars, miscVars>>
    /\ UNCHANGED wdVars

\* ----------------------- SpecTG: WaitAndStop while one StopChan gets stopped
\* The environment stops exactly one of the wrapped StopChans, with or
\* without an error, at any time.
EnvStop(k) ==
    /\ tgEnvChan = 0
    /\ \E call \in WFAStopCalls : BeginCall(EnvProc, NoopStart(k), call)
    /\ tgEnvChan' = k
    /\ UNCHANGED <<wfaVars, tgPc, stopWorker, tgReason, collectI, numErrors, tgRet>>
    /\ UNCHANGED <<taskVars, miscVars>>
    /\ UNCHANGED wdVars

EnvReturn == ReturnStep(EnvProc)

InitTG ==
    /\ InitChans
    /\ InitProcs
    /\ InitNoWFA
    /\ tgPc = "start"
    /\ stopWorker = [i \in Chans |-> "none"]
    /\ tgReason = -1
    /\ collectI = 0
    /\ numErrors = 0
    /\ tgRet = 0
    /\ tgEnvChan = 0
    /\ InitNoWatchdog
    /\ InitNoTask
    /\ InitNoMisc

NextTG ==
    \/ TGStartTasks
    \/ WFAStart
    \/ WFABuild
    \/ WFAAfterLoop
    \/ WFASelect
    \/ TGAfterWait
    \/ TGSpawn
    \/ \E i \in Tasks : TGWorkerStop(i)
    \/ \E i \in Tasks : TGWorkerDone(i)
    \/ TGStopReturn
    \/ TGJoin
    \/ TGCollect
    \/ TGReturn
    \/ \E k \in Tasks : EnvStop(k)
    \/ EnvReturn
    \/ \E p \in AllProcs : LockStep(p)
    \/ \E p \in AllProcs : PerformStep(p)
    \/ \E p \in AllProcs : FlipStep(p)
    \/ \E p \in AllProcs : UnlockStep(p)
    \/ \E c \in Chans : BridgeWake(c)
    \/ \E c \in Chans : BridgeClose(c)

SpecTG == InitTG /\ [][NextTG]_vars

\* SpecCollect: CollectErrors on a list of StopChans, uninitialized ones
\* included, while a worker stops StopChans of the list
InitCollect ==
    /\ InitChans
    /\ InitProcs
    /\ channels \in WFALists
    /\ wfaPc = "none"
    /\ wfaI = 0
    /\ validCases = 0
    /\ wfaRet = -1
    /\ tgPc = "collect"
    /\ stopWorker = [i \in Chans |-> "none"]
    /\ tgReason = -1
    /\ collectI = 1
    /\ numErrors = 0
    /\ tgRet = 0
    /\ tgEnvChan = 0
    /\ InitNoWatchdog
    /\ InitNoTask
    /\ InitNoMisc

NextCollect ==
    \/ TGCollect
    \/ CollectReturn
    \/ \E p \in WFAStoppers : StopCall(p)
    \/ \E p \in WFAStoppers : LockStep(p)
    \/ \E p \in WFAStoppers : PerformStep(p)
    \/ \E p \in WFAStoppers : FlipStep(p)
    \/ \E p \in WFAStoppers : UnlockStep(p)
    \/ \E p \in WFAStoppers : ReturnStep(p)

SpecCollect == InitCollect /\ [][NextCollect]_vars

\* Every goroutine that can run does: the caller of WaitAndStop, the
\* goroutines of TaskGroup.Stop and of WaitChan, and a worker inside Stop.
FairTG ==
    /\ WF_vars(TGStartTasks) /\ WF_vars(TGAfterWait) /\ WF_vars(TGSpawn)
    /\ WF_vars(TGStopReturn) /\ WF_vars(TGJoin) /\ WF_vars(TGCollect) /\ WF_vars(TGReturn)
    /\ WF_vars(WFAStart) /\ WF_vars(WFABuild) /\ WF_vars(WFAAfterLoop) /\ WF_vars(WFASelect)
    /\ \A i \in Tasks : WF_vars(TGWorkerStop(i)) /\ WF_vars(TGWorkerDone(i))
    /\ \A c \in Chans : WF_vars(BridgeWake(c)) /\ WF_vars(BridgeClose(c))
    /\ \A p \in AllProcs : WF_vars(LockStep(p)) /\ WF_vars(PerformStep(p))
                           /\ WF_vars(FlipStep(p)) /\ WF_vars(UnlockStep(p))

FairSpecTG == SpecTG /\ FairTG

\* ------------------------- SpecTGW: WaitAndStop with a timeout parameter > 0
\* The function of time.AfterFunc runs: the timeout has expired. It dumps the
\* goroutines and panics, which ends the process.
WatchdogFire ==
    /\ watchdog = "armed"
    /\ watchdog' = "fired"
    /\ abortAt' = tgPc
    /\ UNCHANGED <<tgPc, stopWorker, tgReason, collectI, numErrors, tgRet, tgEnvChan,
                   tgTimeout, wfaVars, chanVars, procVars, taskVars, miscVars>>

InitTGW ==
    /\ InitChans
    /\ InitProcs
    /\ InitNoWFA
    /\ tgPc = "start"
    /\ stopWorker = [i \in Chans |-> "none"]
    /\ tgReason = -1
    /\ collectI = 0
    /\ numErrors = 0
    /\ tgRet = 0
    /\ tgEnvChan = 0
    /\ tgTimeout = TRUE
    /\ watchdog = "none"
    /\ abortAt = "none"
    /\ InitNoTask
    /\ InitNoMisc

\* the process runs until the watchdog ends it
Alive == watchdog # "fired"

NextTGW ==
    \/ Alive /\ (TGStartTasks)
    \/ Alive /\ (WFAStart)
    \/ Alive /\ (WFABuild)
    \/ Alive /\ (WFAAfterLoop)
    \/ Alive /\ (WFASelect)
    \/ Alive /\ (TGAfterWait)
    \/ Alive /\ (TGSpawn)
    \/ Alive /\ (\E i \in Tasks : TGWorkerStop(i))
    \/ Alive /\ (\E i \in Tasks : TGWorkerDone(i))
    \/ Alive /\ (TGStopReturn)
    \/ Alive /\ (TGJoin)
    \/ Alive /\ (TGCollect)
    \/ Alive /\ (TGReturn)
    \/ Alive /\ (\E k \in Tasks : EnvStop(k))
    \/ Alive /\ (EnvReturn)
    \/ Alive /\ (\E p \in AllProcs : LockStep(p))
    \/ Alive /\ (\E p \in AllProcs : PerformStep(p))
    \/ Alive /\ (\E p \in AllProcs : FlipStep(p))
    \/ Alive /\ (\E p \in AllProcs : UnlockStep(p))
    \/ Alive /\ (\E c \in Chans : BridgeWake(c))
    \/ Alive /\ (\E c \in Chans : BridgeClose(c))
    \/ WatchdogFire

SpecTGW == InitTGW /\ [][NextTGW]_vars

\* ------------------------------------------ tasks built on a LoopTask
TaskKinds == {"Loop", "TCPListener", "UDPListener", "CliLogBox", "Cleanup", "Command", "Timeout"}
\* TCPListenerTask and UDPListenerTask: the same ExtendedStart, Stop and stop()
ListenerKinds == {"TCPListener", "UDPListener"}

\* the goroutine spawned by LoopTask.Start
LoopProc == NumChans + 1
\* `task.StopChan = NewStopChan()`
LoopChan == 1
\* the StopChan made by NewStoppedChan(err), and its error
ErrChan == 2
CfgErr == "e2"
\* errors.New("Timeout after ...") of a TimeoutTask
TimeoutErr == "Timeout after"
StopLoopTask == "StopLoopTask"

\* the list of returned values, which stops growing at MaxIter
Record(list, r) == IF Len(list) < MaxIter THEN Append(list, r) ELSE list

\* Variant: StopErr(err) without `if err == StopLoopTask { err = nil }`.
StopErrArgRaw(r) == r

\* the error the worker passes to stop.StopErr for the value r returned by Loop
StopErrArg(r) == IF r = StopLoopTask THEN Nil ELSE r

\* Variant: only StopLoopTask stops the loop.
MustStopMarkerOnly(r) == r = StopLoopTask

\* `if err != nil`: the worker stops the StopChan for the value r returned by Loop
MustStop(r) == r # Nil

\* a counter that stops counting at MaxIter
Count(n) == IF n < MaxIter THEN n + 1 ELSE n

\* Variant: InterceptLoggers() before the test of t.Update.
StartInterceptsUnchecked(k, ok) == k = "CliLogBox"

\* CliLogBoxTask.Start calls t.InterceptLoggers() after `if t.Update == nil`
\* has not returned
StartIntercepts(k, ok) == k = "CliLogBox" /\ ok

\* Start: LoopTask.Start, TCPListenerTask.ExtendedStart, CliLogBoxTask.Start
TaskStart ==
    /\ taskPc = "new"
    /\ ~fault
    /\ taskPc' = "started"
    /\ IF kind = "Cleanup"
       THEN \* CleanupTask.Start: `return StopChan{}`
            /\ startRet' = NilHandle
            /\ UNCHANGED <<loopObj, loopChan, listener, loopPc, hookRuns, stopped, err, trans>>
       ELSE IF cfgOk
       THEN /\ loopObj' = (kind # "Command")
            /\ loopChan' = LoopChan
            /\ startRet' = LoopChan
            /\ listener' = IF kind \in ListenerKinds THEN "open" ELSE listener
            /\ loopPc' = CASE kind = "Command" -> "procWait"
                            [] kind = "Timeout" -> "tmWait"
                            [] OTHER -> "check"
            /\ UNCHANGED <<hookRuns, stopped, err, trans>>
       ELSE /\ loopObj' = (kind \in ListenerKinds)
            /\ startRet' = ErrChan
            /\ stopped' = [stopped EXCEPT ![ErrChan] = TRUE]
            /\ err' = [err EXCEPT ![ErrChan] = CfgErr]
            /\ trans' = [trans EXCEPT ![ErrChan] = Append(@, CfgErr)]
            /\ hookRuns' = IF kind \in ListenerKinds /\ hasHook THEN Count(hookRuns) ELSE hookRuns
            /\ UNCHANGED <<loopChan, listener, loopPc>>
    /\ UNCHANGED <<kind, cfgOk, hasHook, iterations, results, fault>>
    /\ UNCHANGED <<lock, waitChan, bridge, spawned, procVars, wfaVars, tgVars, lbVars, updVars, flVars, logVars, subVars, ceVars, netVars, sockVars, ginVars, trigVars, bcVars, tcVars>>
    /\ IF StartIntercepts(kind, cfgOk)
       THEN \* InterceptLoggers: `buf.originalLoggerOut[i] = l.Out; l.Out = noopWriter{}`
            /\ savedOut' = loggerOut
            /\ loggerOut' = [l \in Loggers |-> "noop"]
       ELSE UNCHANGED boxVars
    /\ IF kind = "Command" /\ cfgOk
       THEN \* process.Start() succeeds; `command.Proc = process.Process`
            /\ cmdProc' = TRUE
            /\ procState' = "running"
            /\ UNCHANGED <<cmdState, cmdStateErr, sighup>>
       ELSE UNCHANGED cmdVars
    /\ UNCHANGED onceVars

\* Stop() of the task, called by a worker of the environment after Start
TaskStop(p) ==
    /\ taskPc = "started"
    /\ ~fault
    /\ calls < MaxStops
    /\ pc[p] = "idle"
    /\ IF kind = "Cleanup"
       THEN \* CleanupTask.Stop: task.once.Do(...), entered
            /\ pc' = [pc EXCEPT ![p] = "onceFast"]
            /\ op' = [op EXCEPT ![p] = "Stop"]
            /\ calls' = calls + 1
            /\ UNCHANGED <<chanVars, recv, fn, arg, ret, ran, fault>>
       ELSE IF kind = "Command"
       THEN \* Command.Stop: checkStarted(), then command.Proc.Signal(syscall.SIGHUP)
            /\ pc' = [pc EXCEPT ![p] = "done"]
            /\ op' = [op EXCEPT ![p] = "Stop"]
            /\ calls' = calls + 1
            /\ UNCHANGED <<chanVars, recv, fn, arg, ret, ran, fault>>
       ELSE IF kind = "CliLogBox" /\ ~loopObj
       THEN \* t.updateTask.Stop() on the nil *LoopTask
            /\ fault' = TRUE
            /\ UNCHANGED <<chanVars, procVars>>
       ELSE /\ BeginCall(p, loopChan,
                         IF kind \in ListenerKinds
                         THEN [op |-> "StopFunc", fn |-> "taskStop", arg |-> Nil]
                         ELSE [op |-> "Stop", fn |-> "none", arg |-> Nil])
            /\ UNCHANGED fault
    /\ UNCHANGED <<kind, cfgOk, hasHook, taskPc, loopObj, loopChan, startRet, listener,
                   loopPc, iterations, results, hookRuns>>
    /\ UNCHANGED <<wfaVars, tgVars, miscVars>>
    /\ sighup' = IF kind = "Command" /\ cmdProc THEN TRUE ELSE sighup
    /\ UNCHANGED <<onceVars, procState, cmdProc, cmdState, cmdStateErr>>

\* the perform function of TCPListenerTask.Stop: task.stop(), under the lock
TaskStopPerform(p) ==
    /\ pc[p] = "perform"
    /\ fn[p] = "taskStop"
    /\ listener' = "nil"
    /\ err' = [err EXCEPT ![recv[p]] = Nil]
    /\ ran' = [ran EXCEPT ![p] = TRUE]
    /\ pc' = [pc EXCEPT ![p] = "flip"]
    /\ UNCHANGED <<stopped, lock, waitChan, bridge, spawned, trans, op, recv, fn, arg, ret, calls>>
    /\ UNCHANGED <<kind, cfgOk, hasHook, taskPc, loopObj, loopChan, startRet,
                   loopPc, iterations, results, hookRuns, fault>>
    /\ UNCHANGED <<wfaVars, tgVars, miscVars>>
    /\ UNCHANGED kindVars

\* what the actions of sync.Once leave alone
onceFrame == <<chanVars, op, recv, fn, arg, ret, ran, calls, wfaVars, tgVars, miscVars,
               kind, cfgOk, hasHook, taskPc, loopObj, loopChan, startRet, listener,
               loopPc, iterations, results, hookRuns, fault, cmdVars>>

\* once.Do, fast path: `if atomic.LoadUint32(&o.done) == 1 { return }`
OnceFast(p) ==
    /\ pc[p] = "onceFast"
    /\ pc' = [pc EXCEPT ![p] = IF onceDone THEN "done" ELSE "onceLock"]
    /\ UNCHANGED <<onceVars, onceFrame>>

\* Variant: once.Do without the `if o.done == 0` check under the mutex.
OnceMustRunAlways == TRUE

\* once.Do under the mutex: `if o.done == 0`
OnceMustRun == ~onceDone

\* once.Do, slow path: `o.m.Lock()` and the check of o.done
OnceLock(p) ==
    /\ pc[p] = "onceLock"
    /\ onceM = 0
    /\ onceM' = p
    /\ pc' = [pc EXCEPT ![p] = IF OnceMustRun THEN "onceDo" ELSE "onceUnlock"]
    /\ UNCHANGED <<cleanupRuns, onceDone, onceFrame>>

\* once.Do: f(), which is `if cleanup := task.Cleanup; cleanup != nil { cleanup() }`
OnceDo(p) ==
    /\ pc[p] = "onceDo"
    /\ cleanupRuns' = IF hasHook THEN Count(cleanupRuns) ELSE cleanupRuns
    /\ pc' = [pc EXCEPT ![p] = "onceStore"]
    /\ UNCHANGED <<onceDone, onceM, onceFrame>>

\* once.Do: the deferred atomic.StoreUint32(&o.done, 1)
OnceStore(p) ==
    /\ pc[p] = "onceStore"
    /\ onceDone' = TRUE
    /\ pc' = [pc EXCEPT ![p] = "onceUnlock"]
    /\ UNCHANGED <<cleanupRuns, onceM, onceFrame>>

\* once.Do: the deferred o.m.Unlock()
OnceUnlock(p) ==
    /\ pc[p] = "onceUnlock"
    /\ onceM' = 0
    /\ pc' = [pc EXCEPT ![p] = "done"]
    /\ UNCHANGED <<cleanupRuns, onceDone, onceFrame>>

\* what the actions of a Command and its subprocess leave alone
cmdFrame == <<wfaVars, tgVars, miscVars, onceVars,
              kind, cfgOk, hasHook, taskPc, loopObj, loopChan, startRet, listener,
              iterations, results, hookRuns, fault>>

\* the subprocess exits: by itself with status 0 or another status, or
\* killed by the SIGHUP it was sent
ProcExit ==
    /\ procState = "running"
    /\ procState' \in {"exit0", "exitN"} \cup (IF sighup THEN {"signaled"} ELSE {})
    /\ UNCHANGED <<chanVars, procVars, cmdFrame, loopPc, cmdProc, cmdState, cmdStateErr, sighup>>

\* The (state, err) pairs command.Proc.Wait() can return for an exited
\* subprocess: its state, or an error of the wait itself.
WaitResults ==
    {[state |-> IF procState = "exit0" THEN "success" ELSE "failure", err |-> Nil],
     [state |-> "nil", err |-> "e1"]}

\* Command.waitForProcess: Proc.Wait() returns, State and StateErr are
\* assigned, processFinished.StopErr(err) is called
CmdWait ==
    /\ loopPc = "procWait"
    /\ procState \notin {"none", "running"}
    /\ ~fault
    /\ \E w \in WaitResults :
          LET e == IF w.state = "nil" /\ w.err = Nil THEN "e1" ELSE w.err
          IN /\ cmdState' = w.state
             /\ cmdStateErr' = e
             /\ BeginCall(LoopProc, loopChan, [op |-> "StopErr", fn |-> "closure", arg |-> e])
    /\ loopPc' = "cmdStopErr"
    /\ UNCHANGED <<cmdFrame, procState, cmdProc, sighup>>

\* Command.waitForProcess: StopErr has returned; the deferred wg.Done()
CmdExit ==
    /\ loopPc = "cmdStopErr"
    /\ pc[LoopProc] = "done"
    /\ ~fault
    /\ Return(LoopProc)
    /\ loopPc' = "exited"
    /\ UNCHANGED <<cmdFrame, cmdVars>>

\* Command.IsFinished: checkStarted(), then processFinished.Stopped()
IsFinished == cmdProc /\ Stopped(loopChan)

\* Command.Success
Success == cmdStateErr # Nil \/ (cmdState # "nil" /\ cmdState = "success")

\* the worker: `for !stop.Stopped()`, the call
LoopCheck ==
    /\ loopPc = "check"
    /\ ~fault
    /\ BeginCall(LoopProc, loopChan, [op |-> "Stopped", fn |-> "none", arg |-> Nil])
    /\ loopPc' = "checking"
    /\ UNCHANGED <<kind, cfgOk, hasHook, taskPc, loopObj, loopChan, startRet, listener,
                   iterations, results, hookRuns, fault>>
    /\ UNCHANGED <<wfaVars, tgVars, miscVars>>
    /\ UNCHANGED kindVars

\* the worker: Stopped() has returned: run Loop again, or leave the loop to
\* the deferred hook() and wg.Done()
LoopChecked ==
    /\ loopPc = "checking"
    /\ pc[LoopProc] = "done"
    /\ ~fault
    /\ Return(LoopProc)
    /\ IF ret[LoopProc] = "false"
       THEN /\ loopPc' = "inLoop"
            /\ iterations' = Count(iterations)
       ELSE /\ loopPc' = IF hasHook THEN "hook" ELSE "exited"
            /\ UNCHANGED iterations
    /\ UNCHANGED <<kind, cfgOk, hasHook, taskPc, loopObj, loopChan, startRet, listener,
                   results, hookRuns, fault>>
    /\ UNCHANGED <<wfaVars, tgVars, miscVars>>
    /\ UNCHANGED kindVars

\* The values an invocation of Loop can return without calling the StopChan.
LoopResults ==
    CASE kind = "Loop" -> {Nil, StopLoopTask, "e1"}
      [] kind \in ListenerKinds ->
            \* task.listener is nil; or AcceptTCP, ReadFromUDP fails
            IF listener = "nil" THEN {StopLoopTask, Nil} ELSE {Nil}
      [] kind = "CliLogBox" -> {"e1"}    \* updateBox fails

\* The StopChan method an invocation of Loop can call before it returns nil.
LoopCallsOf ==
    CASE kind = "Loop" -> {}
      [] kind = "TCPListener" ->
            \* a connection is accepted: stop.IfElseStopped(close, Handler)
            IF listener = "open"
            THEN {[op |-> "IfElseStopped", fn |-> "user", arg |-> Nil]}
            ELSE {}
      [] kind = "UDPListener" ->
            \* a packet is received: stop.IfNotStopped(Handler)
            IF listener = "open"
            THEN {[op |-> "IfNotStopped", fn |-> "user", arg |-> Nil]}
            ELSE {}
      [] kind = "CliLogBox" ->
            \* updateBox succeeds: select on the timer and stop.WaitChan()
            {[op |-> "WaitChan", fn |-> "none", arg |-> Nil]}

\* the worker: `err := loop(stop)` and `if err != nil {...; stop.StopErr(err)}`
LoopReturn ==
    /\ loopPc = "inLoop"
    /\ ~fault
    /\ \/ \E r \in LoopResults :
             /\ results' = Record(results, r)
             /\ IF ~MustStop(r)
                THEN /\ loopPc' = "check"
                     /\ UNCHANGED <<chanVars, procVars>>
                ELSE /\ BeginCall(LoopProc, loopChan,
                                  [op |-> "StopErr", fn |-> "closure",
                                   arg |-> StopErrArg(r)])
                     /\ loopPc' = "stopErr"
       \/ \E call \in LoopCallsOf :
             /\ BeginCall(LoopProc, loopChan, call)
             /\ loopPc' = IF call.op = "WaitChan" THEN "sleep" ELSE "handler"
             /\ results' = Record(results, Nil)
    /\ UNCHANGED <<kind, cfgOk, hasHook, taskPc, loopObj, loopChan, startRet, listener,
                   iterations, hookRuns, fault>>
    /\ UNCHANGED <<wfaVars, tgVars, miscVars>>
    /\ UNCHANGED kindVars

\* the worker: the StopChan method called from the iteration has returned
LoopResume ==
    /\ loopPc \in {"stopErr", "sleep", "handler"}
    /\ pc[LoopProc] = "done"
    /\ ~fault
    /\ Return(LoopProc)
    /\ loopPc' = IF kind = "Timeout" THEN "exited" ELSE "check"
    /\ UNCHANGED <<kind, cfgOk, hasHook, taskPc, loopObj, loopChan, startRet, listener,
                   iterations, results, hookRuns, fault>>
    /\ UNCHANGED <<wfaVars, tgVars, miscVars>>
    /\ UNCHANGED kindVars

\* the worker of a TimeoutTask: t.stopper.WaitTimeout(t.Timeout), the call
TimeoutWait ==
    /\ loopPc = "tmWait"
    /\ BeginCall(LoopProc, loopChan, [op |-> "WaitTimeout", fn |-> "none", arg |-> Nil])
    /\ loopPc' = "tmWaiting"
    /\ UNCHANGED <<kind, cfgOk, hasHook, taskPc, loopObj, loopChan, startRet, listener,
                   iterations, results, hookRuns, fault>>
    /\ UNCHANGED <<wfaVars, tgVars, miscVars>>
    /\ UNCHANGED kindVars

\* Variant: the worker never takes the branch of the timeout.
ExpiredNever(r) == FALSE

\* `if t.stopper.WaitTimeout(t.Timeout)` for the value r it returned
Expired(r) == r = "true"

\* the worker of a TimeoutTask: WaitTimeout has returned; the message is
\* made if it timed out, else the deferred wg.Done()
TimeoutWaited ==
    /\ loopPc = "tmWaiting"
    /\ pc[LoopProc] = "done"
    /\ Return(LoopProc)
    /\ loopPc' = IF Expired(ret[LoopProc]) THEN "tmExpired" ELSE "exited"
    /\ UNCHANGED <<kind, cfgOk, hasHook, taskPc, loopObj, loopChan, startRet, listener,
                   iterations, results, hookRuns, fault>>
    /\ UNCHANGED <<wfaVars, tgVars, miscVars>>
    /\ UNCHANGED kindVars

\* the worker of a TimeoutTask: t.stopper.StopErr(errors.New(msg)), the call
TimeoutStopErr ==
    /\ loopPc = "tmExpired"
    /\ BeginCall(LoopProc, loopChan, [op |-> "StopErr", fn |-> "closure", arg |-> TimeoutErr])
    /\ loopPc' = "stopErr"
    /\ UNCHANGED <<kind, cfgOk, hasHook, taskPc, loopObj, loopChan, startRet, listener,
                   iterations, results, hookRuns, fault>>
    /\ UNCHANGED <<wfaVars, tgVars, miscVars>>
    /\ UNCHANGED kindVars

\* Variant: RestoreLoggers gives every logger the saved output of one logger.
RestoredOutSame(l) == savedOut["Log"]

\* RestoreLoggers: `l.Out = buf.originalLoggerOut[i]`
RestoredOut(l) == savedOut[l]

\* the worker: the deferred hook(), then the deferred wg.Done()
LoopHook ==
    /\ loopPc = "hook"
    /\ ~fault
    /\ hookRuns' = Count(hookRuns)
    /\ loopPc' = "exited"
    /\ IF kind = "CliLogBox"
       THEN \* t.updateBox(), then RestoreLoggers: `l.Out = buf.originalLoggerOut[i]`
            /\ loggerOut' = [l \in Loggers |-> RestoredOut(l)]
            /\ UNCHANGED savedOut
       ELSE UNCHANGED boxVars
    /\ UNCHANGED <<kind, cfgOk, hasHook, taskPc, loopObj, loopChan, startRet, listener,
                   iterations, results, fault>>
    /\ UNCHANGED <<chanVars, procVars, wfaVars, tgVars, lbVars, updVars, flVars, logVars, subVars, ceVars, netVars, sockVars, ginVars, trigVars, bcVars, tcVars>>
    /\ UNCHANGED kindVars

\* --------------------------------- SpecTask: one task, started, then stopped
InitTask ==
    /\ InitChans
    /\ InitProcs
    /\ InitNoWFA
    /\ InitNoTG
    /\ kind \in TaskKinds
    /\ cfgOk \in BOOLEAN
    /\ hasHook \in BOOLEAN
    /\ kind = "Loop" => cfgOk            \* LoopTask.Start cannot fail
    /\ kind = "CliLogBox" => hasHook     \* CliLogBoxTask.Start sets StopHook
    /\ kind = "Cleanup" => cfgOk         \* CleanupTask.Start cannot fail
    /\ kind = "Command" => ~hasHook      \* a Command has no callback
    /\ kind = "Timeout" => (cfgOk /\ ~hasHook)   \* TimeoutTask.Start cannot fail
    /\ InitKind
    /\ taskPc = "new"
    /\ loopObj = (kind = "Loop")
    /\ loopChan = NilHandle
    /\ startRet = NilHandle
    /\ listener = "nil"
    /\ loopPc = "none"
    /\ iterations = 0
    /\ results = <<>>
    /\ hookRuns = 0
    /\ fault = FALSE
    /\ InitNoMisc

NextTask ==
    \/ TaskStart
    \/ \E p \in Procs : TaskStop(p)
    \/ \E p \in Procs : TaskStopPerform(p)
    \/ \E p \in Procs : ReturnStep(p)
    \/ \E p \in Procs : OnceFast(p)
    \/ \E p \in Procs : OnceLock(p)
    \/ \E p \in Procs : OnceDo(p)
    \/ \E p \in Procs : OnceStore(p)
    \/ \E p \in Procs : OnceUnlock(p)
    \/ ProcExit
    \/ CmdWait
    \/ CmdExit
    \/ LoopCheck
    \/ LoopChecked
    \/ LoopReturn
    \/ LoopResume
    \/ LoopHook
    \/ TimeoutWait
    \/ TimeoutWaited
    \/ TimeoutStopErr
    \/ SelectStep(LoopProc)
    \/ \E p \in AllProcs : LockStep(p)
    \/ \E p \in AllProcs : PerformStep(p)
    \/ \E p \in AllProcs : FlipStep(p)
    \/ \E p \in AllProcs : UnlockStep(p)
    \/ \E p \in AllProcs : CallbackReturn(p)
    \/ \E c \in Chans : BridgeWake(c)
    \/ \E c \in Chans : BridgeClose(c)

SpecTask == InitTask /\ [][NextTask]_vars

\* The worker goroutine, the goroutines of WaitChan and every caller that
\* is inside a StopChan method keep running.
FairTask ==
    /\ WF_vars(LoopCheck) /\ WF_vars(LoopChecked) /\ WF_vars(LoopReturn)
    /\ WF_vars(LoopResume) /\ WF_vars(LoopHook)
    /\ WF_vars(CmdWait) /\ WF_vars(CmdExit)
    /\ WF_vars(TimeoutWait) /\ WF_vars(TimeoutWaited) /\ WF_vars(TimeoutStopErr)
    /\ WF_vars(SelectStep(LoopProc))
    /\ \A c \in Chans : WF_vars(BridgeWake(c)) /\ WF_vars(BridgeClose(c))
    /\ \A p \in AllProcs : WF_vars(LockStep(p)) /\ WF_vars(PerformStep(p))
                           /\ WF_vars(FlipStep(p)) /\ WF_vars(UnlockStep(p))
                           /\ WF_vars(CallbackReturn(p))
    /\ \A p \in Procs : WF_vars(TaskStopPerform(p))
    /\ \A p \in Procs : WF_vars(OnceFast(p)) /\ WF_vars(OnceLock(p)) /\ WF_vars(OnceDo(p))
                        /\ WF_vars(OnceStore(p)) /\ WF_vars(OnceUnlock(p))

FairSpecTask == SpecTask /\ FairTask

\* ------------------------ SpecListen: the Loop of the two listener tasks
\* Variant: the Loop passes the connection to Execute.
ListenerCallExecute(k) == [op |-> "Execute", fn |-> "user", arg |-> Nil]

\* The StopChan method the Loop calls for an accepted connection or a
\* received packet: stop.IfElseStopped(close, Handler) in the TCP listener,
\* stop.IfNotStopped(Handler) in the UDP listener.
ListenerCall(k) ==
    IF k = "TCPListener"
    THEN [op |-> "IfElseStopped", fn |-> "user", arg |-> Nil]
    ELSE [op |-> "IfNotStopped", fn |-> "user", arg |-> Nil]

\* Loop: `if listener := task.listener; listener == nil { return StopLoopTask }`,
\* on which the worker calls stop.StopErr(nil)
ListenRead ==
    /\ loopPc = "inLoop"
    /\ ~fault
    /\ IF listener = "nil"
       THEN /\ results' = Record(results, StopLoopTask)
            /\ BeginCall(LoopProc, loopChan,
                         [op |-> "StopErr", fn |-> "closure", arg |-> StopErrArg(StopLoopTask)])
            /\ loopPc' = "stopErr"
       ELSE /\ loopPc' = "accept"
            /\ UNCHANGED <<results, chanVars, procVars>>
    /\ UNCHANGED netVars
    /\ UNCHANGED <<kind, cfgOk, hasHook, taskPc, loopObj, loopChan, startRet, listener,
                   iterations, hookRuns, fault>>
    /\ UNCHANGED <<wfaVars, tgVars, lbVars, updVars, flVars, logVars, subVars, ceVars, sockVars, boxVars, ginVars, trigVars, bcVars, tcVars>>
    /\ UNCHANGED kindVars

\* the listening socket made by ExtendedStart accepts connections until
\* listener.Close() is called on it
SockOpen == taskPc = "started" /\ sockCloses = 0

\* Loop: listener.AcceptTCP() or listener.ReadFromUDP(buf) returns, with a
\* connection of the open socket, or with an error (always when stop() has
\* closed the socket)
Accept ==
    /\ loopPc = "accept"
    /\ \/ /\ SockOpen
          /\ accepted < MaxAccepts
          /\ accepted' = accepted + 1
          /\ connHandled' = Append(connHandled, 0)
          /\ connClosed' = Append(connClosed, 0)
          /\ loopPc' = "dispatch"
          /\ UNCHANGED acceptErr
       \/ /\ loopPc' = "acceptErr"
          /\ acceptErr' = IF SockOpen THEN "other" ELSE "closed"
          /\ UNCHANGED <<accepted, connHandled, connClosed>>
    /\ UNCHANGED <<body, hpc, hop, sockCloses, logged, results>>
    /\ UNCHANGED <<chanVars, procVars>>
    /\ UNCHANGED <<kind, cfgOk, hasHook, taskPc, loopObj, loopChan, startRet, listener,
                   iterations, hookRuns, fault>>
    /\ UNCHANGED <<wfaVars, tgVars, lbVars, updVars, flVars, logVars, subVars, ceVars, boxVars, ginVars, trigVars, bcVars, tcVars>>
    /\ UNCHANGED kindVars

\* Variant: the error is logged whatever task.listener is.
MustLogAlways(l) == TRUE

\* `if task.listener != nil { Log.Errorln(...) }`
MustLog(l) == l # "nil"

\* Loop: after an error of the accept, the test of task.listener and the
\* log entry; the Loop returns nil
AcceptFailed ==
    /\ loopPc = "acceptErr"
    /\ logged' = IF MustLog(listener) THEN logged \cup {acceptErr} ELSE logged
    /\ acceptErr' = "none"
    /\ loopPc' = "check"
    /\ results' = Record(results, Nil)
    /\ UNCHANGED <<netVars, sockCloses>>
    /\ UNCHANGED <<chanVars, procVars>>
    /\ UNCHANGED <<kind, cfgOk, hasHook, taskPc, loopObj, loopChan, startRet, listener,
                   iterations, hookRuns, fault>>
    /\ UNCHANGED <<wfaVars, tgVars, lbVars, updVars, flVars, logVars, subVars, ceVars, boxVars, ginVars, trigVars, bcVars, tcVars>>
    /\ UNCHANGED kindVars

\* the function Stop() passes to StopFunc, under the lock: task.stop() up to
\* `task.listener = nil`
ListenStopPerform(p) ==
    /\ pc[p] = "perform"
    /\ fn[p] = "taskStop"
    /\ listener' = "nil"
    /\ err' = [err EXCEPT ![recv[p]] = Nil]
    /\ ran' = [ran EXCEPT ![p] = TRUE]
    /\ pc' = [pc EXCEPT ![p] = IF listener # "nil" THEN "sockClose" ELSE "flip"]
    /\ UNCHANGED <<stopped, lock, waitChan, bridge, spawned, trans, op, recv, fn, arg, ret, calls>>
    /\ UNCHANGED <<kind, cfgOk, hasHook, taskPc, loopObj, loopChan, startRet,
                   loopPc, iterations, results, hookRuns, fault>>
    /\ UNCHANGED <<wfaVars, tgVars, miscVars>>
    /\ UNCHANGED kindVars

\* task.stop(): `_ = listener.Close()`
ListenStopClose(p) ==
    /\ pc[p] = "sockClose"
    /\ sockCloses' = sockCloses + 1
    /\ pc' = [pc EXCEPT ![p] = "flip"]
    /\ UNCHANGED <<acceptErr, logged, netVars>>
    /\ UNCHANGED <<chanVars, op, recv, fn, arg, ret, ran, calls>>
    /\ UNCHANGED <<taskVars, wfaVars, tgVars, lbVars, updVars, flVars, logVars, subVars, ceVars, boxVars, ginVars, trigVars, bcVars, tcVars>>

\* the accept on a closed socket returns
AcceptClosed == ~SockOpen /\ Accept

\* Loop: the call of stop.IfElseStopped or stop.IfNotStopped
Dispatch ==
    /\ loopPc = "dispatch"
    /\ BeginCall(LoopProc, loopChan, ListenerCall(kind))
    /\ loopPc' = "handler"
    /\ results' = Record(results, Nil)
    /\ body' = "none"
    /\ hpc' = "none"
    /\ hop' = "none"
    /\ UNCHANGED <<accepted, connHandled, connClosed>>
    /\ UNCHANGED <<kind, cfgOk, hasHook, taskPc, loopObj, loopChan, startRet, listener,
                   iterations, hookRuns, fault>>
    /\ UNCHANGED <<wfaVars, tgVars, lbVars, updVars, flVars, logVars, subVars, ceVars, sockVars, boxVars, ginVars, trigVars, bcVars, tcVars>>
    /\ UNCHANGED kindVars

\* the function the StopChan method executes under its lock is entered:
\* `_ = conn.Close()` as the first function of IfElseStopped, and
\* task.Handler(wg, conn) otherwise
HandlerBody ==
    /\ loopPc = "handler"
    /\ pc[LoopProc] = "callback"
    /\ body = "none"
    /\ IF op[LoopProc] = "IfElseStopped" /\ ret[LoopProc] = "stopped"
       THEN /\ body' = "close"
            /\ connClosed' = [connClosed EXCEPT ![accepted] = @ + 1]
            /\ UNCHANGED connHandled
       ELSE /\ body' = "handler"
            /\ connHandled' = [connHandled EXCEPT ![accepted] = @ + 1]
            /\ UNCHANGED connClosed
    /\ UNCHANGED <<accepted, hpc, hop>>
    /\ UNCHANGED <<chanVars, procVars, taskVars, wfaVars, tgVars, lbVars, updVars, flVars, logVars, subVars, ceVars, sockVars, boxVars, ginVars, trigVars, bcVars, tcVars>>

\* the Handler, or the function that closes the connection, returns
HandlerReturn ==
    /\ loopPc = "handler"
    /\ body # "none"
    /\ hpc # "lock"
    /\ CallbackReturn(LoopProc)

HelperOps == {"Stopped", "IfStopped", "IfNotStopped", "IfElseStopped"}

\* the Handler, or the StopHook, calls one of the stop-check helpers of the
\* task, which begins with s.cond.L.Lock()
HelperCall ==
    /\ \/ loopPc = "handler" /\ pc[LoopProc] = "callback" /\ body = "handler" /\ hpc = "none"
       \/ loopPc = "hook" /\ hpc \in {"none", "done"}
    /\ hpc' = "lock"
    /\ hop' \in HelperOps
    /\ UNCHANGED <<accepted, connHandled, connClosed, body>>
    /\ UNCHANGED <<chanVars, procVars, taskVars, wfaVars, tgVars, lbVars, updVars, flVars, logVars, subVars, ceVars, sockVars, boxVars, ginVars, trigVars, bcVars, tcVars>>

\* s.cond.L.Lock() of the helper returns; the helper tests s.stopped, runs
\* its function if it has to, unlocks and returns
HelperLock ==
    /\ hpc = "lock"
    /\ LockFree(loopChan)
    /\ hpc' = IF loopPc = "hook" THEN "hookDone" ELSE "done"
    /\ hop' = "none"
    /\ UNCHANGED <<accepted, connHandled, connClosed, body>>
    /\ UNCHANGED <<chanVars, procVars, taskVars, wfaVars, tgVars, lbVars, updVars, flVars, logVars, subVars, ceVars, sockVars, boxVars, ginVars, trigVars, bcVars, tcVars>>

\* the deferred hook() of the worker returns
ListenHook == hpc # "lock" /\ LoopHook

InitListen ==
    /\ InitChans
    /\ InitProcs
    /\ InitNoWFA
    /\ InitNoTG
    /\ kind \in ListenerKinds
    /\ cfgOk = TRUE
    /\ hasHook \in BOOLEAN
    /\ InitKind
    /\ taskPc = "new"
    /\ loopObj = FALSE
    /\ loopChan = NilHandle
    /\ startRet = NilHandle
    /\ listener = "nil"
    /\ loopPc = "none"
    /\ iterations = 0
    /\ results = <<>>
    /\ hookRuns = 0
    /\ fault = FALSE
    /\ InitNoMisc

NextListen ==
    \/ TaskStart
    \/ \E p \in Procs : TaskStop(p)
    \/ \E p \in Procs : ListenStopPerform(p)
    \/ \E p \in Procs : ListenStopClose(p)
    \/ \E p \in Procs : ReturnStep(p)
    \/ LoopCheck
    \/ LoopChecked
    \/ ListenRead
    \/ Accept
    \/ AcceptFailed
    \/ Dispatch
    \/ HandlerBody
    \/ HandlerReturn
    \/ HelperCall
    \/ HelperLock
    \/ LoopResume
    \/ ListenHook
    \/ \E p \in AllProcs : LockStep(p)
    \/ \E p \in AllProcs : FlipStep(p)
    \/ \E p \in AllProcs : UnlockStep(p)

SpecListen == InitListen /\ [][NextListen]_vars

\* The worker and every caller inside a StopChan method keep running, and
\* the accept on a closed socket returns; a connection need not arrive, and
\* a callback need not call a helper.
FairListen ==
    /\ WF_vars(LoopCheck) /\ WF_vars(LoopChecked) /\ WF_vars(ListenRead)
    /\ WF_vars(Dispatch) /\ WF_vars(HandlerBody) /\ WF_vars(HandlerReturn)
    /\ WF_vars(HelperLock) /\ WF_vars(LoopResume) /\ WF_vars(ListenHook)
    /\ \A p \in AllProcs : WF_vars(LockStep(p)) /\ WF_vars(FlipStep(p))
                           /\ WF_vars(UnlockStep(p))
    /\ \A p \in Procs : WF_vars(ListenStopPerform(p)) /\ WF_vars(ListenStopClose(p))
    /\ WF_vars(AcceptClosed) /\ WF_vars(AcceptFailed)

FairSpecListen == SpecListen /\ FairListen

\* ------------------------------------------------------ SpecGin: a GinTask
\* `task.c = NewStopChan()`
GinChan == LoopChan
ErrServerClosed == "http: Server closed"

\* MultiError([]error{a, b})
MultiError(a, b) ==
    CASE a = "e2" /\ b = "e1" -> "[e2 e1]"
      [] a = "e1" /\ b = "e2" -> "[e1 e2]"
      [] OTHER -> "[]"

\* the error the worker passes to StopErr for the error of ListenAndServe
\* and the value of task.shutdownErr
GinError(serve, shutdown) ==
    LET e == IF serve = ErrServerClosed THEN Nil ELSE serve
    IN IF shutdown # Nil
       THEN (IF e = Nil THEN shutdown ELSE MultiError(shutdown, e))
       ELSE e

\* GinTask.Start: the StopChan is made, the worker is spawned
GinStart ==
    /\ ginPc = "none"
    /\ ginPc' = "spawned"
    /\ UNCHANGED <<server, shutting, serveErr, shutdownErr, ginHookSet, ginHookRuns>>
    /\ UNCHANGED <<chanVars, procVars>>
    /\ UNCHANGED <<wfaVars, tgVars, taskVars, lbVars, updVars, flVars, logVars, subVars, ceVars, netVars, sockVars, boxVars, trigVars, bcVars, tcVars>>

\* the worker: `task.server = &http.Server{...}`
GinSetServer ==
    /\ ginPc = "spawned"
    /\ server' = "set"
    /\ ginPc' = "serving"
    /\ UNCHANGED <<shutting, serveErr, shutdownErr, ginHookSet, ginHookRuns>>
    /\ UNCHANGED <<chanVars, procVars>>
    /\ UNCHANGED <<wfaVars, tgVars, taskVars, lbVars, updVars, flVars, logVars, subVars, ceVars, netVars, sockVars, boxVars, trigVars, bcVars, tcVars>>

\* the worker: task.server.ListenAndServe() returns, ErrServerClosed after
\* Shutdown was called, else an error of listening or serving
GinServeReturn ==
    /\ ginPc = "serving"
    /\ serveErr' = IF shutting THEN ErrServerClosed ELSE "e1"
    /\ ginPc' = "served"
    /\ UNCHANGED <<server, shutting, shutdownErr, ginHookSet, ginHookRuns>>
    /\ UNCHANGED <<chanVars, procVars>>
    /\ UNCHANGED <<wfaVars, tgVars, taskVars, lbVars, updVars, flVars, logVars, subVars, ceVars, netVars, sockVars, boxVars, trigVars, bcVars, tcVars>>

\* the worker: `if hook := task.ShutdownHook; hook != nil { hook() }`
GinHook ==
    /\ ginPc = "served"
    /\ ginHookRuns' = IF ginHookSet THEN ginHookRuns + 1 ELSE ginHookRuns
    /\ ginPc' = "hooked"
    /\ UNCHANGED <<server, shutting, serveErr, shutdownErr, ginHookSet>>
    /\ UNCHANGED <<chanVars, procVars>>
    /\ UNCHANGED <<wfaVars, tgVars, taskVars, lbVars, updVars, flVars, logVars, subVars, ceVars, netVars, sockVars, boxVars, trigVars, bcVars, tcVars>>

\* the worker: the tests of err and task.shutdownErr, and task.c.StopErr(err)
GinStopErr ==
    /\ ginPc = "hooked"
    /\ BeginCall(LoopProc, GinChan,
                 [op |-> "StopErr", fn |-> "closure", arg |-> GinError(serveErr, shutdownErr)])
    /\ ginPc' = "stopErr"
    /\ UNCHANGED <<server, shutting, serveErr, shutdownErr, ginHookSet, ginHookRuns>>
    /\ UNCHANGED <<wfaVars, tgVars, taskVars, lbVars, updVars, flVars, logVars, subVars, ceVars, netVars, sockVars, boxVars, trigVars, bcVars, tcVars>>

\* the worker: StopErr has returned; the deferred wg.Done()
GinExit ==
    /\ ginPc = "stopErr"
    /\ pc[LoopProc] = "done"
    /\ Return(LoopProc)
    /\ ginPc' = "exited"
    /\ UNCHANGED <<server, shutting, serveErr, shutdownErr, ginHookSet, ginHookRuns>>
    /\ UNCHANGED <<wfaVars, tgVars, taskVars, lbVars, updVars, flVars, logVars, subVars, ceVars, netVars, sockVars, boxVars, trigVars, bcVars, tcVars>>

\* GinTask.Stop, called after Start has returned: `server := task.server`
\* and `if server != nil`
GinStop(p) ==
    /\ ginPc # "none"
    /\ calls < MaxStops
    /\ pc[p] = "idle"
    /\ op' = [op EXCEPT ![p] = "GinStop"]
    /\ pc' = [pc EXCEPT ![p] = IF server # "nil" THEN "shutdown" ELSE "done"]
    /\ calls' = calls + 1
    /\ UNCHANGED <<chanVars, recv, fn, arg, ret, ran>>
    /\ UNCHANGED ginVars
    /\ UNCHANGED <<wfaVars, tgVars, taskVars, lbVars, updVars, flVars, logVars, subVars, ceVars, netVars, sockVars, boxVars, trigVars, bcVars, tcVars>>

\* GinTask.Stop: server.Shutdown(context.Background()) is called; the
\* listeners are closed
GinShutdown(p) ==
    /\ pc[p] = "shutdown"
    /\ shutting' = TRUE
    /\ pc' = [pc EXCEPT ![p] = "shutdownWait"]
    /\ UNCHANGED <<ginPc, server, serveErr, shutdownErr, ginHookSet, ginHookRuns>>
    /\ UNCHANGED <<chanVars, op, recv, fn, arg, ret, ran, calls>>
    /\ UNCHANGED <<wfaVars, tgVars, taskVars, lbVars, updVars, flVars, logVars, subVars, ceVars, netVars, sockVars, boxVars, trigVars, bcVars, tcVars>>

\* GinTask.Stop: Shutdown returns; `task.shutdownErr = ...`
GinShutdownReturn(p) ==
    /\ pc[p] = "shutdownWait"
    /\ shutdownErr' \in {Nil, "e2"}
    /\ pc' = [pc EXCEPT ![p] = "done"]
    /\ UNCHANGED <<ginPc, server, shutting, serveErr, ginHookSet, ginHookRuns>>
    /\ UNCHANGED <<chanVars, op, recv, fn, arg, ret, ran, calls>>
    /\ UNCHANGED <<wfaVars, tgVars, taskVars, lbVars, updVars, flVars, logVars, subVars, ceVars, netVars, sockVars, boxVars, trigVars, bcVars, tcVars>>

InitGin ==
    /\ InitChans /\ InitProcs /\ InitNoWFA /\ InitNoTG /\ InitNoTask
    /\ InitNoTimeoutCond
    /\ InitNoBoolCondition
    /\ InitNoTrigger
    /\ InitNoLogBuffer
    /\ InitNoUpdate
    /\ InitNoFlags
    /\ InitNoLogger
    /\ InitNoSubstring
    /\ InitNoCollected
    /\ InitNoListener
    /\ InitNoSocket
    /\ InitNoBox
    /\ ginPc = "none"
    /\ server = "nil"
    /\ shutting = FALSE
    /\ serveErr = Nil
    /\ shutdownErr = Nil
    /\ ginHookSet \in BOOLEAN
    /\ ginHookRuns = 0

\* ListenAndServe returns once Shutdown was called
GinServeClosed == shutting /\ GinServeReturn

NextGin ==
    \/ GinStart
    \/ GinSetServer
    \/ GinServeReturn
    \/ GinHook
    \/ GinStopErr
    \/ GinExit
    \/ \E p \in Procs : GinStop(p)
    \/ \E p \in Procs : GinShutdown(p)
    \/ \E p \in Procs : GinShutdownReturn(p)
    \/ \E p \in Procs : ReturnStep(p)
    \/ \E p \in AllProcs : LockStep(p)
    \/ \E p \in AllProcs : PerformStep(p)
    \/ \E p \in AllProcs : FlipStep(p)
    \/ \E p \in AllProcs : UnlockStep(p)

SpecGin == InitGin /\ [][NextGin]_vars

\* The worker and the callers of Stop() keep running, Shutdown returns, and
\* ListenAndServe returns once the server is shut down; a server that is
\* not shut down may serve for ever.
FairGin ==
    /\ WF_vars(GinStart) /\ WF_vars(GinSetServer) /\ WF_vars(GinServeClosed)
    /\ WF_vars(GinHook) /\ WF_vars(GinStopErr) /\ WF_vars(GinExit)
    /\ \A p \in Procs : WF_vars(GinShutdown(p)) /\ WF_vars(GinShutdownReturn(p))
    /\ \A p \in AllProcs : WF_vars(LockStep(p)) /\ WF_vars(PerformStep(p))
                           /\ WF_vars(FlipStep(p)) /\ WF_vars(UnlockStep(p))

FairSpecGin == SpecGin /\ FairGin

\* ---------------------------------------------------- gotermBox.LogBuffer
\* what the actions of the LogBuffer leave alone
lbFrame == <<chanVars, procVars, wfaVars, tgVars, taskVars, updVars, flVars, logVars, subVars, ceVars, netVars, sockVars, boxVars, ginVars, trigVars, bcVars, tcVars>>

\* ring.Move(n) for n <= 0 from element r: n steps along prev
RingMove(r, n) == (r + lbCap * lbCap + n) % lbCap

\* r.Do(f): the values of all elements of the ring in forward order from r
RingDo(r) == [i \in 1..lbCap |-> ring[(r + i - 1) % lbCap]]

\* the function passed to Do writes the values that are not nil
NotNil(v) == v # 0

\* LogBuffer.PushMessage
PushMessage ==
    /\ pushCount < MaxPush
    /\ ring' = [ring EXCEPT ![ringPos] = pushCount + 1]
    /\ ringPos' = (ringPos + 1) % lbCap
    /\ pushCount' = pushCount + 1
    /\ UNCHANGED <<lbCap, out, printed, printArg, printAt, lbFrame>>

\* LogBuffer.PrintMessages(w, max_num) with a writer that accepts every write
PrintMessages(max_num) ==
    /\ out' = IF max_num <= 0
              THEN <<>>
              ELSE LET msgStart == IF max_num < lbCap
                                   THEN RingMove(ringPos, -max_num)
                                   ELSE ringPos
                   IN SelectSeq(RingDo(msgStart), NotNil)
    /\ printed' = TRUE
    /\ printArg' = max_num
    /\ printAt' = pushCount
    /\ UNCHANGED <<lbCap, ring, ringPos, pushCount, lbFrame>>

\* NewLogBuffer(message_buffer, loggers) with message_buffer > 0
InitLogBuffer ==
    /\ InitChans /\ InitProcs /\ InitNoWFA /\ InitNoTG /\ InitNoTask
    /\ InitNoTimeoutCond
    /\ InitNoBoolCondition
    /\ InitNoTrigger
    /\ InitNoGin
    /\ InitNoBox
    /\ InitNoSocket
    /\ InitNoListener
    /\ InitNoCollected
    /\ InitNoSubstring
    /\ InitNoLogger
    /\ InitNoUpdate /\ InitNoFlags
    /\ lbCap \in 1..MaxCap
    /\ ring = [i \in 0..(lbCap - 1) |-> 0]
    /\ ringPos = 0
    /\ pushCount = 0
    /\ out = <<>>
    /\ printed = FALSE
    /\ printArg = 0
    /\ printAt = 0

NextLogBuffer ==
    \/ PushMessage
    \/ \E n \in -1..(MaxCap + 1) : PrintMessages(n)

SpecLogBuffer == InitLogBuffer /\ [][NextLogBuffer]_vars

\* ------------------------------------- CliLogBox.Update, newlineCounter
\* what the actions of Update leave alone
updFrame == <<chanVars, procVars, wfaVars, tgVars, taskVars, lbVars, flVars, logVars, subVars, ceVars, netVars, sockVars, boxVars, ginVars, trigVars, bcVars, tcVars>>

\* bytes: the newline and one other character
NL == "\n"
Bytes == {NL, "c"}
\* the data of one Write call of writeContent
DataOf(n) == UNION {[1..k -> Bytes] : k \in 1..n}

RECURSIVE Newlines(_)
\* the number of newlines in data
Newlines(data) ==
    IF data = <<>> THEN 0
    ELSE (IF Head(data) = NL THEN 1 ELSE 0) + Newlines(Tail(data))

RECURSIVE Passed(_, _, _)
\* newlineCounter.Write, first branch: the bytes of data written to
\* counter.out when counter.num is num: everything, or the bytes up to the
\* newline with which counter.num reaches max_lines
Passed(data, num, max) ==
    IF data = <<>> THEN <<>>
    ELSE IF Head(data) = NL
    THEN (IF max > 0 /\ num + 1 >= max
          THEN <<NL>>
          ELSE <<NL>> \o Passed(Tail(data), num + 1, max))
    ELSE <<Head(data)>> \o Passed(Tail(data), num, max)

\* newlineCounter.Write(data), called by writeContent; counter.out accepts
\* every write
NCWrite(data) ==
    /\ updPc = "content"
    /\ writes < MaxWrites
    /\ writes' = writes + 1
    /\ content' = content \o data
    /\ IF ncMax <= 0 \/ ncNum < ncMax
       THEN /\ ncOut' = ncOut \o Passed(data, ncNum, ncMax)
            /\ ncNum' = ncNum + Newlines(Passed(data, ncNum, ncMax))
            /\ UNCHANGED ncTrunc
       ELSE /\ ncTrunc' = TRUE
            /\ UNCHANGED <<ncOut, ncNum>>
    /\ UNCHANGED <<updPc, updLines, logLines, ncMax, sepDots, updFrame>>

\* Update after writeContent has returned: `lines -= counter.num`, the
\* separator line, box.PrintMessages(gotermBox, lines)
UpdateFinish ==
    /\ updPc = "content"
    /\ updLines' = updLines - ncNum
    /\ sepDots' = IF ncNum > 0 THEN (IF ncTrunc THEN "dots" ELSE "plain") ELSE "absent"
    /\ updPc' = "done"
    /\ UNCHANGED <<logLines, ncMax, ncNum, ncTrunc, ncOut, content, writes, updFrame>>

\* Update up to the call of writeContent: lines is the height of the box
\* without borders and separator, max_lines is set if box.LogLines > 0
InitUpdate ==
    /\ InitChans /\ InitProcs /\ InitNoWFA /\ InitNoTG /\ InitNoTask
    /\ InitNoTimeoutCond
    /\ InitNoBoolCondition
    /\ InitNoTrigger
    /\ InitNoGin
    /\ InitNoBox
    /\ InitNoSocket
    /\ InitNoListener
    /\ InitNoCollected
    /\ InitNoSubstring
    /\ InitNoLogger
    /\ InitNoLogBuffer /\ InitNoFlags
    /\ updPc = "content"
    /\ updLines \in 1..MaxLines
    /\ logLines \in 0..MaxLines
    /\ ncMax = IF logLines > 0 THEN updLines - logLines ELSE 0
    /\ ncNum = 0
    /\ ncTrunc = FALSE
    /\ ncOut = <<>>
    /\ content = <<>>
    /\ writes = 0
    /\ sepDots = "none"

NextUpdate ==
    \/ \E data \in DataOf(MaxData) : NCWrite(data)
    \/ UpdateFinish

SpecUpdate == InitUpdate /\ [][NextUpdate]_vars

\* ------------------------------------------------------------ flags.go
\* what the functions of flags.go leave alone
flFrame == <<chanVars, procVars, wfaVars, tgVars, taskVars, lbVars, updVars, logVars, subVars, ceVars, netVars, sockVars, boxVars, ginVars, trigVars, bcVars, tcVars>>

\* a string is a sequence of characters; Space stands for every character
\* that strings.TrimSpace removes
Space == " "
EntrySeparator == <<",">>
EntrySeparatorFormatted == EntrySeparator \o <<Space>>
ValueSeparator == <<"=">>

\* the strings given as keys, values and list entries
Words == {<<>>, <<"a">>, <<"a", Space, "b">>, <<Space>>, <<",">>, <<"=">>}
\* the strings given to the parse functions
TextChars == {"a", Space, ",", "="}
Texts == UNION {[1..n -> TextChars] : n \in 0..MaxText}
\* lists of at most n elements of S
Lists(S, n) == UNION {[1..k -> S] : k \in 0..n}

RECURSIVE Join(_, _)
\* strings.Join(elems, sep)
Join(elems, sep) ==
    IF elems = <<>> THEN <<>>
    ELSE IF Len(elems) = 1 THEN elems[1]
    ELSE elems[1] \o sep \o Join(Tail(elems), sep)

\* index of the first occurrence of the one-character separator sep in s, 0 if none
Index(s, sep) ==
    IF \E i \in 1..Len(s) : s[i] = sep[1]
    THEN CHOOSE i \in 1..Len(s) : s[i] = sep[1] /\ \A j \in 1..(i - 1) : s[j] # sep[1]
    ELSE 0

RECURSIVE Split(_, _)
\* strings.Split(s, sep) for a separator of one character
Split(s, sep) ==
    IF Index(s, sep) = 0 THEN <<s>>
    ELSE <<SubSeq(s, 1, Index(s, sep) - 1)>> \o Split(SubSeq(s, Index(s, sep) + 1, Len(s)), sep)

\* strings.SplitN(s, sep, 2)
SplitN2(s, sep) ==
    IF Index(s, sep) = 0 THEN <<s>>
    ELSE <<SubSeq(s, 1, Index(s, sep) - 1), SubSeq(s, Index(s, sep) + 1, Len(s))>>

\* a TrimSpace that removes nothing
TrimSpaceNone(s) == s

RECURSIVE TrimLeft(_)
TrimLeft(s) == IF s # <<>> /\ Head(s) = Space THEN TrimLeft(Tail(s)) ELSE s

RECURSIVE TrimRight(_)
TrimRight(s) ==
    IF s # <<>> /\ s[Len(s)] = Space THEN TrimRight(SubSeq(s, 1, Len(s) - 1)) ELSE s

\* strings.TrimSpace(s)
TrimSpace(s) == TrimRight(TrimLeft(s))

\* FormatStringSlice(stringSlice)
FormatStringSlice(stringSlice) == Join(stringSlice, EntrySeparatorFormatted)

RECURSIVE TrimmedNonEmpty(_)
\* the loop of ParseSlice over parts
TrimmedNonEmpty(parts) ==
    IF parts = <<>> THEN <<>>
    ELSE (IF TrimSpace(Head(parts)) # <<>> THEN <<TrimSpace(Head(parts))>> ELSE <<>>)
         \o TrimmedNonEmpty(Tail(parts))

\* ParseSlice(data)
ParseSlice(data) == TrimmedNonEmpty(Split(data, EntrySeparator))

RECURSIVE FormatFrom(_, _, _)
\* the loop of FormatOrderedMap from index i on
FormatFrom(keys, values, i) ==
    IF i > Len(values) THEN <<>>
    ELSE (IF i > 1 THEN EntrySeparatorFormatted ELSE <<>>)
         \o keys[i] \o ValueSeparator \o values[i]
         \o FormatFrom(keys, values, i + 1)

\* FormatOrderedMap(keys, values)
FormatOrderedMap(keys, values) == FormatFrom(keys, values, 1)

\* ParseOrderedMap: key and value of one part before trimming
PartKey(part) == IF Len(SplitN2(part, ValueSeparator)) = 2 THEN SplitN2(part, ValueSeparator)[1] ELSE part
PartValue(part) == IF Len(SplitN2(part, ValueSeparator)) = 2 THEN SplitN2(part, ValueSeparator)[2] ELSE <<>>

RECURSIVE ParseParts(_)
\* the loop of ParseOrderedMap over parts: the pairs <<key, value>>
ParseParts(parts) ==
    IF parts = <<>> THEN <<>>
    ELSE (IF TrimSpace(PartKey(Head(parts))) # <<>>
          THEN <<<<TrimSpace(PartKey(Head(parts))), TrimSpace(PartValue(Head(parts)))>>>>
          ELSE <<>>)
         \o ParseParts(Tail(parts))

\* ParseOrderedMap(data): <<keys, values>>
ParseOrderedMap(data) ==
    LET pairs == ParseParts(Split(data, EntrySeparator))
    IN  <<[i \in 1..Len(pairs) |-> pairs[i][1]], [i \in 1..Len(pairs) |-> pairs[i][2]]>>

\* res[key] = value on a Go map
MapPut(res, key, value) ==
    [k \in (DOMAIN res) \cup {key} |-> IF k = key THEN value ELSE res[k]]

RECURSIVE MapFrom(_, _, _, _)
\* the loop of ParseMap from index i on
MapFrom(res, keys, values, i) ==
    IF i > Len(keys) THEN res
    ELSE MapFrom(MapPut(res, keys[i], values[i]), keys, values, i + 1)

\* ParseMap(data)
ParseMap(data) == MapFrom(<<>>, ParseOrderedMap(data)[1], ParseOrderedMap(data)[2], 1)

\* KeyValueStringSlice.deleteIndex(i, slice), i counted from 1
deleteIndex(i, slice) == SubSeq(slice, 1, i - 1) \o SubSeq(slice, i + 1, Len(slice))

RECURSIVE DeleteLoop(_, _, _, _)
\* the loop of KeyValueStringSlice.Delete from index i on: <<Keys, Values>>
DeleteLoop(keys, values, key, i) ==
    IF i > Len(keys) THEN <<keys, values>>
    ELSE IF keys[i] = key
    THEN DeleteLoop(deleteIndex(i, keys), deleteIndex(i, values), key, i + 1)
    ELSE DeleteLoop(keys, values, key, i + 1)

\* text = FormatOrderedMap(inKeys, inValues)
DoFormatOrderedMap ==
    /\ textFrom = "none"
    /\ Len(inKeys) > 0
    /\ text' = FormatOrderedMap(inKeys, inValues)
    /\ textFrom' = "FormatOrderedMap"
    /\ UNCHANGED <<inKeys, inValues, inList, parsed, outKeys, outValues, outList, outMap,
                   kvKeys, kvValues, delKey, kvBefore, flFrame>>

\* text = FormatStringSlice(inList)
DoFormatStringSlice ==
    /\ textFrom = "none"
    /\ Len(inList) > 0
    /\ text' = FormatStringSlice(inList)
    /\ textFrom' = "FormatStringSlice"
    /\ UNCHANGED <<inKeys, inValues, inList, parsed, outKeys, outValues, outList, outMap,
                   kvKeys, kvValues, delKey, kvBefore, flFrame>>

\* outKeys, outValues = ParseOrderedMap(text)
DoParseOrderedMap ==
    /\ textFrom \in {"input", "FormatOrderedMap"}
    /\ parsed = "none"
    /\ outKeys' = ParseOrderedMap(text)[1]
    /\ outValues' = ParseOrderedMap(text)[2]
    /\ parsed' = "ParseOrderedMap"
    /\ UNCHANGED <<inKeys, inValues, inList, text, textFrom, outList, outMap,
                   kvKeys, kvValues, delKey, kvBefore, flFrame>>

\* outList = ParseSlice(text)
DoParseSlice ==
    /\ textFrom \in {"input", "FormatStringSlice"}
    /\ parsed = "none"
    /\ outList' = ParseSlice(text)
    /\ parsed' = "ParseSlice"
    /\ UNCHANGED <<inKeys, inValues, inList, text, textFrom, outKeys, outValues, outMap,
                   kvKeys, kvValues, delKey, kvBefore, flFrame>>

\* outMap = ParseMap(text)
DoParseMap ==
    /\ textFrom \in {"input", "FormatOrderedMap"}
    /\ parsed = "none"
    /\ outMap' = ParseMap(text)
    /\ parsed' = "ParseMap"
    /\ UNCHANGED <<inKeys, inValues, inList, text, textFrom, outKeys, outValues, outList,
                   kvKeys, kvValues, delKey, kvBefore, flFrame>>

\* k.Delete(key)
DoDelete(key) ==
    /\ Len(kvKeys) > 0
    /\ delKey = "none"
    /\ kvKeys' = DeleteLoop(kvKeys, kvValues, key, 1)[1]
    /\ kvValues' = DeleteLoop(kvKeys, kvValues, key, 1)[2]
    /\ delKey' = <<key>>
    /\ kvBefore' = <<kvKeys, kvValues>>
    /\ UNCHANGED <<inKeys, inValues, inList, text, textFrom, parsed, outKeys, outValues,
                   outList, outMap, flFrame>>

\* keys and values of a KeyValueStringSlice, and the keys given to Delete
KVKeys == {<<"a">>, <<"a", Space, "b">>}
KVValues == {<<>>, <<"a">>}
DeleteKeys == KVKeys \cup {<<"=">>}

\* the arguments: a string, or key-value pairs, or a list of strings, or
\* a KeyValueStringSlice
InitFlags ==
    /\ InitChans /\ InitProcs /\ InitNoWFA /\ InitNoTG /\ InitNoTask
    /\ InitNoTimeoutCond
    /\ InitNoBoolCondition
    /\ InitNoTrigger
    /\ InitNoGin
    /\ InitNoBox
    /\ InitNoSocket
    /\ InitNoListener
    /\ InitNoCollected
    /\ InitNoSubstring
    /\ InitNoLogger
    /\ InitNoLogBuffer /\ InitNoUpdate
    /\ InitNoResults
    /\ \/ /\ text \in Texts
          /\ textFrom = "input"
          /\ inKeys = <<>> /\ inValues = <<>> /\ inList = <<>>
          /\ kvKeys = <<>> /\ kvValues = <<>>
       \/ /\ \E pairs \in Lists(Words \X Words, MaxPairs) \ {<<>>} :
                /\ inKeys = [i \in 1..Len(pairs) |-> pairs[i][1]]
                /\ inValues = [i \in 1..Len(pairs) |-> pairs[i][2]]
          /\ text = <<>> /\ textFrom = "none" /\ inList = <<>>
          /\ kvKeys = <<>> /\ kvValues = <<>>
       \/ /\ inList \in Lists(Words, MaxEntries) \ {<<>>}
          /\ text = <<>> /\ textFrom = "none"
          /\ inKeys = <<>> /\ inValues = <<>>
          /\ kvKeys = <<>> /\ kvValues = <<>>
       \/ /\ \E pairs \in Lists(KVKeys \X KVValues, MaxEntries) \ {<<>>} :
                /\ kvKeys = [i \in 1..Len(pairs) |-> pairs[i][1]]
                /\ kvValues = [i \in 1..Len(pairs) |-> pairs[i][2]]
          /\ text = <<>> /\ textFrom = "none"
          /\ inKeys = <<>> /\ inValues = <<>> /\ inList = <<>>

NextFlags ==
    \/ DoFormatOrderedMap
    \/ DoFormatStringSlice
    \/ DoParseOrderedMap
    \/ DoParseSlice
    \/ DoParseMap
    \/ \E key \in DeleteKeys : DoDelete(key)

SpecFlags == InitFlags /\ [][NextFlags]_vars

\* ------------------------------------------------------- ConfigureLogger
\* what ConfigureLogger leaves alone
logFrame == <<chanVars, procVars, wfaVars, tgVars, taskVars, lbVars, updVars, flVars, subVars, ceVars, netVars, sockVars, boxVars, ginVars, trigVars, bcVars, tcVars>>


\* ConfigureLogger: the level chosen from the Log* variables
ChosenLevel ==
    IF LogVerbose THEN "debug"
    ELSE IF LogVeryQuiet THEN "error"
    ELSE IF LogQuiet THEN "warn"
    ELSE "info"

\* ConfigureLogger(l)
ConfigureLogger(l) ==
    /\ l \in DOMAIN level
    /\ configured[l] < MaxConfigure
    /\ level' = [level EXCEPT ![l] = ChosenLevel]
    /\ hooks' = [hooks EXCEPT ![l] = IF LogFile THEN @ + 1 ELSE @]
    /\ configured' = [configured EXCEPT ![l] = @ + 1]
    /\ UNCHANGED <<LogVerbose, LogQuiet, LogVeryQuiet, LogFile, logFrame>>

\* the loggers as made by log.New(), the Log* variables as set by the flags
InitLogger ==
    /\ InitChans /\ InitProcs /\ InitNoWFA /\ InitNoTG /\ InitNoTask
    /\ InitNoTimeoutCond
    /\ InitNoBoolCondition
    /\ InitNoTrigger
    /\ InitNoGin
    /\ InitNoBox
    /\ InitNoSocket
    /\ InitNoListener
    /\ InitNoCollected
    /\ InitNoSubstring
    /\ InitNoLogBuffer
    /\ InitNoUpdate
    /\ InitNoFlags
    /\ LogVerbose \in BOOLEAN
    /\ LogQuiet \in BOOLEAN
    /\ LogVeryQuiet \in BOOLEAN
    /\ LogFile \in BOOLEAN
    /\ level = [l \in Loggers |-> "info"]
    /\ hooks = [l \in Loggers |-> 0]
    /\ configured = [l \in Loggers |-> 0]

NextLogger == \E l \in Loggers : ConfigureLogger(l)

SpecLogger == InitLogger /\ [][NextLogger]_vars

\* -------------------------------------------------------------- Substring
\* what Substring leaves alone
subFrame == <<chanVars, procVars, wfaVars, tgVars, taskVars, lbVars, updVars, flVars, logVars, ceVars, netVars, sockVars, boxVars, ginVars, trigVars, bcVars, tcVars>>

\* the runes: two ASCII letters and one East Asian wide character of three bytes
WideRune == <<"w1", "w2", "w3">>
Runes == {<<"a">>, <<"b">>, WideRune}

RECURSIVE Flatten(_)
\* the bytes of a sequence of runes
Flatten(runes) == IF runes = <<>> THEN <<>> ELSE Head(runes) \o Flatten(Tail(runes))

\* ReadRune(input) for a non-empty input that starts with one of the runes
ReadRune(input) ==
    LET size == IF Head(input) = "w1" THEN 3 ELSE 1
    IN  [theRune |-> SubSeq(input, 1, size),
         rest |-> SubSeq(input, size + 1, Len(input)),
         runeWidth |-> IF Head(input) = "w1" THEN 2 ELSE 1]

\* vtclean.Clean(str, false): the strings here hold no escape characters and
\* no color codes, nothing is stripped from them
Clean(str) == SelectSeq(str, LAMBDA b : b # "ESC")

RECURSIVE FindStart(_, _, _, _, _)
\* Substring, first loop: the value of str after it
FindStart(str, buf, textWidth, cleanedLen, iFrom) ==
    IF ~(str # <<>> /\ textWidth < iFrom) THEN str
    ELSE LET r == ReadRune(str)
             buf2 == buf \o r.theRune
             added == Len(Clean(buf2)) > cleanedLen
             textWidth2 == IF added THEN textWidth + r.runeWidth ELSE textWidth
             cleanedLen2 == IF added THEN Len(Clean(buf2)) ELSE cleanedLen
         IN  IF textWidth2 >= iFrom THEN str
             ELSE FindStart(r.rest, buf2, textWidth2, cleanedLen2, iFrom)

RECURSIVE FindEnd(_, _, _, _, _, _, _, _)
\* Substring, second loop: to, suffix and possibleColor after it
FindEnd(str, buf, textWidth, cleanedLen, to, suffix, possibleColor, iLen) ==
    IF ~(str # <<>> /\ textWidth < iLen)
    THEN [to |-> to, suffix |-> suffix, possibleColor |-> possibleColor]
    ELSE LET r == ReadRune(str)
             buf2 == buf \o r.theRune
             added == Len(Clean(buf2)) > cleanedLen
             textWidth2 == IF added THEN textWidth + r.runeWidth ELSE textWidth
             cleanedLen2 == IF added THEN Len(Clean(buf2)) ELSE cleanedLen
             color2 == possibleColor \/ Len(Clean(buf2)) # Len(buf2)
         IN  IF textWidth2 > iLen
             THEN (IF r.runeWidth = 2
                   THEN [to |-> to + 1, suffix |-> [suffix EXCEPT ![to + 1] = " "],
                         possibleColor |-> color2]
                   ELSE [to |-> to, suffix |-> suffix, possibleColor |-> color2])
             ELSE FindEnd(r.rest, buf2, textWidth2, cleanedLen2, to + Len(r.theRune),
                          suffix, color2, iLen)

\* Substring(str, iFrom, iTo)
Substring(str, iFrom, iTo) ==
    LET start == FindStart(str, <<>>, 0, 0, iFrom)
        end == FindEnd(start, <<>>, 0, 0, 0, start, FALSE, iTo - iFrom)
        result == SubSeq(end.suffix, 1, end.to)
    IN  IF end.possibleColor THEN result \o <<"ESC", "[", "0", "m">> ELSE result

\* subResult = Substring(subStr, subFrom, subTo)
DoSubstring ==
    /\ subStr # <<>>
    /\ ~subDone
    /\ subResult' = Substring(subStr, subFrom, subTo)
    /\ subDone' = TRUE
    /\ UNCHANGED <<subStr, subFrom, subTo, subFrame>>

\* the arguments: a string of at most MaxRunes runes and two indices
InitSubstring ==
    /\ InitChans /\ InitProcs /\ InitNoWFA /\ InitNoTG /\ InitNoTask
    /\ InitNoTimeoutCond
    /\ InitNoBoolCondition
    /\ InitNoTrigger
    /\ InitNoGin
    /\ InitNoBox
    /\ InitNoSocket
    /\ InitNoListener
    /\ InitNoCollected
    /\ InitNoLogBuffer
    /\ InitNoUpdate
    /\ InitNoFlags
    /\ InitNoLogger
    /\ \E runes \in UNION {[1..n -> Runes] : n \in 1..MaxRunes} : subStr = Flatten(runes)
    /\ subFrom \in 0..(MaxRunes + 1)
    /\ subTo \in 0..(MaxRunes + 1)
    /\ subDone = FALSE
    /\ subResult = <<>>

NextSubstring == DoSubstring

SpecSubstring == InitSubstring /\ [][NextSubstring]_vars

\* ---------------------------------------------- SpecBox: a CliLogBoxTask
\* `t.updateTrigger = make(chan interface{}, 1)`
TriggerCap == 1

\* Variant: TriggerUpdate without the default case.
TriggerOutcomeNoDefault(q) == IF q < TriggerCap THEN "sent" ELSE "blocked"

\* the select of TriggerUpdate: `case t.updateTrigger <- nil:` when the
\* channel has room, else `default:`
TriggerOutcome(q) == IF q < TriggerCap THEN "sent" ELSE "default"

\* TriggerUpdate, called by PushMessageHook for every log line and by any
\* other goroutine, at any time after Init
TriggerUpdate ==
    /\ triggers < MaxTriggers
    /\ triggers' = triggers + 1
    /\ trigOut' = TriggerOutcome(updateTrigger)
    /\ updateTrigger' = IF TriggerOutcome(updateTrigger) = "sent"
                        THEN updateTrigger + 1 ELSE updateTrigger
    /\ UNCHANGED <<wake, finalRefreshes, originalOut>>
    /\ UNCHANGED <<chanVars, procVars, taskVars, wfaVars, tgVars, lbVars, updVars, flVars, logVars, subVars, ceVars, netVars, sockVars, boxVars, ginVars, bcVars, tcVars>>

\* Loop: `err = t.updateBox()`; on an error Loop returns it and the worker
\* calls stop.StopErr(err), else the first select is prepared with
\* stop.WaitChan()
BoxUpdate ==
    /\ loopPc = "inLoop"
    /\ ~fault
    /\ \/ /\ results' = Record(results, "e1")
          /\ BeginCall(LoopProc, loopChan,
                       [op |-> "StopErr", fn |-> "closure", arg |-> StopErrArg("e1")])
          /\ loopPc' = "stopErr"
       \/ /\ results' = Record(results, Nil)
          /\ BeginCall(LoopProc, loopChan, [op |-> "WaitChan", fn |-> "none", arg |-> Nil])
          /\ loopPc' = "sleepCall"
    /\ UNCHANGED <<kind, cfgOk, hasHook, taskPc, loopObj, loopChan, startRet, listener, iterations, hookRuns, fault>>
    /\ UNCHANGED <<updateTrigger, triggers, trigOut, wake, finalRefreshes, originalOut>>
    /\ UNCHANGED <<wfaVars, tgVars, lbVars, updVars, flVars, logVars, subVars, ceVars, netVars, sockVars, ginVars, boxVars, bcVars, tcVars>>
    /\ UNCHANGED kindVars

\* Loop: stop.WaitChan() has returned, the worker is in the first select
BoxSleep ==
    /\ loopPc \in {"sleepCall", "minSleepCall"}
    /\ pc[LoopProc] = "done"
    /\ Return(LoopProc)
    /\ loopPc' = IF loopPc = "sleepCall" THEN "sleep" ELSE "minSleep"
    /\ UNCHANGED <<kind, cfgOk, hasHook, taskPc, loopObj, loopChan, startRet, listener, iterations, results, hookRuns, fault>>
    /\ UNCHANGED <<updateTrigger, triggers, trigOut, wake, finalRefreshes, originalOut>>
    /\ UNCHANGED <<wfaVars, tgVars, lbVars, updVars, flVars, logVars, subVars, ceVars, netVars, sockVars, ginVars, boxVars, bcVars, tcVars>>
    /\ UNCHANGED kindVars

\* The cases of the two selects of Loop other than the timer.
SleepCases(at) == IF at = "sleep" THEN {"stop", "trigger"} ELSE {"stop"}

\* a case of a select can proceed
CaseCanProceed(c) ==
    \/ c = "timer"
    \/ c = "stop" /\ waitChan[loopChan] = "closed"
    \/ c = "trigger" /\ updateTrigger > 0

\* Loop: what follows a select: `if diff := t.MinUpdateInterval - sleepTime;
\* diff > 0` the second select, prepared with stop.WaitChan(), else return nil
AfterSleep(at) ==
    \/ /\ at = "sleep"
       /\ BeginCall(LoopProc, loopChan, [op |-> "WaitChan", fn |-> "none", arg |-> Nil])
       /\ loopPc' = "minSleepCall"
    \/ /\ loopPc' = "check"
       /\ UNCHANGED <<chanVars, procVars>>

\* Loop: a select ends by `case <-time.After(...)`
BoxTimer ==
    /\ loopPc \in {"sleep", "minSleep"}
    /\ wake' = IF loopPc = "sleep" THEN "timer" ELSE wake
    /\ AfterSleep(loopPc)
    /\ UNCHANGED <<updateTrigger, triggers, trigOut, finalRefreshes, originalOut>>
    /\ UNCHANGED <<kind, cfgOk, hasHook, taskPc, loopObj, loopChan, startRet, listener, iterations, results, hookRuns, fault>>
    /\ UNCHANGED <<wfaVars, tgVars, lbVars, updVars, flVars, logVars, subVars, ceVars, netVars, sockVars, ginVars, boxVars, bcVars, tcVars>>
    /\ UNCHANGED kindVars

\* Loop: a select ends by `case <-stop.WaitChan()` or, the first select
\* only, by `case <-t.updateTrigger`, which takes the value from the channel
BoxWake ==
    /\ loopPc \in {"sleep", "minSleep"}
    /\ \E c \in SleepCases(loopPc) :
          /\ CaseCanProceed(c)
          /\ wake' = IF loopPc = "sleep" THEN c ELSE wake
          /\ updateTrigger' = IF c = "trigger" THEN updateTrigger - 1 ELSE updateTrigger
    /\ AfterSleep(loopPc)
    /\ UNCHANGED <<triggers, trigOut, finalRefreshes, originalOut>>
    /\ UNCHANGED <<kind, cfgOk, hasHook, taskPc, loopObj, loopChan, startRet, listener, iterations, results, hookRuns, fault>>
    /\ UNCHANGED <<wfaVars, tgVars, lbVars, updVars, flVars, logVars, subVars, ceVars, netVars, sockVars, ginVars, boxVars, bcVars, tcVars>>
    /\ UNCHANGED kindVars

\* the StopHook: `err := t.updateBox()`
BoxHookUpdate ==
    /\ loopPc = "hook"
    /\ ~fault
    /\ finalRefreshes' = finalRefreshes + 1
    /\ loopPc' = "restore"
    /\ UNCHANGED <<updateTrigger, triggers, trigOut, wake, originalOut>>
    /\ UNCHANGED <<kind, cfgOk, hasHook, taskPc, loopObj, loopChan, startRet, listener, iterations, results, hookRuns, fault>>
    /\ UNCHANGED <<chanVars, procVars, wfaVars, tgVars, lbVars, updVars, flVars, logVars, subVars, ceVars, netVars, sockVars, ginVars, boxVars, bcVars, tcVars>>
    /\ UNCHANGED kindVars

\* the StopHook: `t.RestoreLoggers()`, then the deferred wg.Done()
BoxHookRestore ==
    /\ loopPc = "restore"
    /\ loggerOut' = [l \in Loggers |-> RestoredOut(l)]
    /\ hookRuns' = Count(hookRuns)
    /\ loopPc' = "exited"
    /\ UNCHANGED savedOut
    /\ UNCHANGED <<updateTrigger, triggers, trigOut, wake, finalRefreshes, originalOut>>
    /\ UNCHANGED <<kind, cfgOk, hasHook, taskPc, loopObj, loopChan, startRet, listener, iterations, results, fault>>
    /\ UNCHANGED <<chanVars, procVars, wfaVars, tgVars, lbVars, updVars, flVars, logVars, subVars, ceVars, netVars, sockVars, ginVars, bcVars, tcVars>>
    /\ UNCHANGED kindVars

\* the outputs a logger can have before the task is started
BoxOuts == {"stderr", "file"}

\* a CliLogBoxTask after Init, with Update set
InitBox ==
    /\ InitChans
    /\ InitProcs
    /\ InitNoWFA
    /\ InitNoTG
    /\ kind = "CliLogBox"
    /\ cfgOk = TRUE
    /\ hasHook = TRUE
    /\ InitKind
    /\ taskPc = "new"
    /\ loopObj = FALSE
    /\ loopChan = NilHandle
    /\ startRet = NilHandle
    /\ listener = "nil"
    /\ loopPc = "none"
    /\ iterations = 0
    /\ results = <<>>
    /\ hookRuns = 0
    /\ fault = FALSE
    /\ InitNoLogBuffer /\ InitNoUpdate /\ InitNoFlags /\ InitNoLogger /\ InitNoSubstring
    /\ InitNoCollected /\ InitNoListener /\ InitNoSocket /\ InitNoGin
    /\ InitNoBoolCondition /\ InitNoTimeoutCond
    /\ originalOut \in {f \in [Loggers -> BoxOuts] : f["StandardLogger"] = "stderr"}
    /\ loggerOut = originalOut
    /\ savedOut = [l \in Loggers |-> "unset"]
    /\ updateTrigger = 0
    /\ triggers = 0
    /\ trigOut = "none"
    /\ wake = "none"
    /\ finalRefreshes = 0

\* the goroutine that calls Stop() of the task
BoxStopper == 1

NextBox ==
    \/ TaskStart
    \/ TaskStop(BoxStopper)
    \/ ReturnStep(BoxStopper)
    \/ TriggerUpdate
    \/ LoopCheck
    \/ LoopChecked
    \/ BoxUpdate
    \/ BoxSleep
    \/ BoxTimer
    \/ BoxWake
    \/ LoopResume
    \/ BoxHookUpdate
    \/ BoxHookRestore
    \/ \E p \in AllProcs : LockStep(p)
    \/ \E p \in AllProcs : PerformStep(p)
    \/ \E p \in AllProcs : FlipStep(p)
    \/ \E p \in AllProcs : UnlockStep(p)
    \/ \E c \in Chans : BridgeWake(c)
    \/ \E c \in Chans : BridgeClose(c)

SpecBox == InitBox /\ [][NextBox]_vars

\* The worker, the goroutine of WaitChan and every caller inside a StopChan
\* method keep running, and a select with a case that can proceed ends; the
\* timers are not needed for that.
FairBox ==
    /\ WF_vars(LoopCheck) /\ WF_vars(LoopChecked) /\ WF_vars(BoxUpdate)
    /\ WF_vars(BoxSleep) /\ WF_vars(BoxWake) /\ WF_vars(LoopResume)
    /\ WF_vars(BoxHookUpdate) /\ WF_vars(BoxHookRestore)
    /\ \A p \in AllProcs : WF_vars(LockStep(p)) /\ WF_vars(PerformStep(p))
                           /\ WF_vars(FlipStep(p)) /\ WF_vars(UnlockStep(p))
    /\ \A c \in Chans : WF_vars(BridgeWake(c)) /\ WF_vars(BridgeClose(c))

FairSpecBox == SpecBox /\ FairBox

\* ----------------------------------------------- SpecBool: a BoolCondition
\* the goroutines that call the methods of the BoolCondition
CondProcs == 1..(NumProcs + 1)
BoolOps == {"Broadcast", "Signal", "Unset", "Wait", "WaitAndUnset"}

\* a method is called: `cond.L.Lock()` is next
BoolCall(p, o) ==
    /\ bcPc[p] = "idle"
    /\ bcCalls < MaxCondCalls
    /\ bcCalls' = bcCalls + 1
    /\ bcOp' = [bcOp EXCEPT ![p] = o]
    /\ bcPc' = [bcPc EXCEPT ![p] = "lock"]
    /\ UNCHANGED <<Val, condL, notifyList, unsetSince, wakeups>>
    /\ UNCHANGED <<chanVars, procVars, wfaVars, tgVars, taskVars, lbVars, updVars, flVars, logVars, subVars, ceVars, netVars, sockVars, boxVars, ginVars, trigVars, tcVars>>

\* `cond.L.Lock()` of a method, or of cond.Cond.Wait() after its wake-up
BoolLock(p) ==
    /\ bcPc[p] \in {"lock", "woken"}
    /\ condL = 0
    /\ condL' = p
    /\ bcPc' = [bcPc EXCEPT ![p] = "locked"]
    /\ UNCHANGED <<Val, notifyList, bcOp, bcCalls, unsetSince, wakeups>>
    /\ UNCHANGED <<chanVars, procVars, wfaVars, tgVars, taskVars, lbVars, updVars, flVars, logVars, subVars, ceVars, netVars, sockVars, boxVars, ginVars, trigVars, tcVars>>

\* The workers that cond.Cond.Broadcast() and cond.Cond.Signal() take from
\* the list of waiters: all of them, the first of them.
Notified(o, list) ==
    IF o = "Broadcast" THEN {list[i] : i \in 1..Len(list)}
    ELSE IF list = <<>> THEN {} ELSE {Head(list)}

\* the list of waiters after that
NotifyRest(o, list) ==
    IF o = "Broadcast" \/ list = <<>> THEN <<>> ELSE Tail(list)

\* Broadcast, Signal: `cond.Val = true`, then the waiters are notified
BoolSet(p) ==
    /\ bcPc[p] = "locked"
    /\ bcOp[p] \in {"Broadcast", "Signal"}
    /\ Val' = TRUE
    /\ notifyList' = NotifyRest(bcOp[p], notifyList)
    /\ bcPc' = [q \in CondProcs |->
                   IF q = p THEN "unlock"
                   ELSE IF q \in Notified(bcOp[p], notifyList) THEN "woken"
                   ELSE bcPc[q]]
    /\ unsetSince' = 0
    /\ wakeups' = wakeups + Cardinality(Notified(bcOp[p], notifyList))
    /\ UNCHANGED <<condL, bcOp, bcCalls>>
    /\ UNCHANGED <<chanVars, procVars, wfaVars, tgVars, taskVars, lbVars, updVars, flVars, logVars, subVars, ceVars, netVars, sockVars, boxVars, ginVars, trigVars, tcVars>>

\* Unset: `cond.Val = false`
BoolUnset(p) ==
    /\ bcPc[p] = "locked"
    /\ bcOp[p] = "Unset"
    /\ Val' = FALSE
    /\ bcPc' = [bcPc EXCEPT ![p] = "unlock"]
    /\ UNCHANGED <<condL, notifyList, bcOp, bcCalls, unsetSince, wakeups>>
    /\ UNCHANGED <<chanVars, procVars, wfaVars, tgVars, taskVars, lbVars, updVars, flVars, logVars, subVars, ceVars, netVars, sockVars, boxVars, ginVars, trigVars, tcVars>>

\* Variant: WaitAndUnset returns without `cond.Val = false`.
ClearsValNever(o) == FALSE

\* WaitAndUnset sets `cond.Val = false` before it returns, Wait does not
ClearsVal(o) == o = "WaitAndUnset"

\* Wait, WaitAndUnset with the mutex held, at the test of cond.Val before
\* and after cond.Cond.Wait(): return if it is true, else cond.Cond.Wait(),
\* which enters the list of waiters and unlocks the mutex
BoolTest(p) ==
    /\ bcPc[p] = "locked"
    /\ bcOp[p] \in {"Wait", "WaitAndUnset"}
    /\ IF Val
       THEN /\ Val' = IF ClearsVal(bcOp[p]) THEN FALSE ELSE Val
            /\ unsetSince' = IF bcOp[p] = "WaitAndUnset" THEN unsetSince + 1 ELSE unsetSince
            /\ bcPc' = [bcPc EXCEPT ![p] = "unlock"]
            /\ UNCHANGED <<condL, notifyList>>
       ELSE /\ notifyList' = Append(notifyList, p)
            /\ condL' = 0
            /\ bcPc' = [bcPc EXCEPT ![p] = "waiting"]
            /\ UNCHANGED <<Val, unsetSince>>
    /\ UNCHANGED <<bcOp, bcCalls, wakeups>>
    /\ UNCHANGED <<chanVars, procVars, wfaVars, tgVars, taskVars, lbVars, updVars, flVars, logVars, subVars, ceVars, netVars, sockVars, boxVars, ginVars, trigVars, tcVars>>

\* the deferred `cond.L.Unlock()`: the method returns
BoolUnlock(p) ==
    /\ bcPc[p] = "unlock"
    /\ condL' = 0
    /\ bcPc' = [bcPc EXCEPT ![p] = "done"]
    /\ UNCHANGED <<Val, notifyList, bcOp, bcCalls, unsetSince, wakeups>>
    /\ UNCHANGED <<chanVars, procVars, wfaVars, tgVars, taskVars, lbVars, updVars, flVars, logVars, subVars, ceVars, netVars, sockVars, boxVars, ginVars, trigVars, tcVars>>

\* the caller goes on
BoolReturn(p) ==
    /\ bcPc[p] = "done"
    /\ bcPc' = [bcPc EXCEPT ![p] = "idle"]
    /\ UNCHANGED <<Val, condL, notifyList, bcOp, bcCalls, unsetSince, wakeups>>
    /\ UNCHANGED <<chanVars, procVars, wfaVars, tgVars, taskVars, lbVars, updVars, flVars, logVars, subVars, ceVars, netVars, sockVars, boxVars, ginVars, trigVars, tcVars>>

\* NewBoolCondition()
InitBool ==
    /\ InitChans /\ InitProcs /\ InitNoWFA /\ InitNoTG /\ InitNoTask
    /\ InitNoTimeoutCond
    /\ InitNoLogBuffer /\ InitNoUpdate /\ InitNoFlags /\ InitNoLogger /\ InitNoSubstring
    /\ InitNoCollected /\ InitNoListener /\ InitNoSocket /\ InitNoBox /\ InitNoGin
    /\ InitNoTrigger /\ InitNoTimeoutCond
    /\ Val = FALSE
    /\ condL = 0
    /\ notifyList = <<>>
    /\ bcPc = [p \in CondProcs |-> "idle"]
    /\ bcOp = [p \in CondProcs |-> "none"]
    /\ bcCalls = 0
    /\ unsetSince = 0
    /\ wakeups = 0

NextBool ==
    \/ \E p \in CondProcs, o \in BoolOps : BoolCall(p, o)
    \/ \E p \in CondProcs : BoolLock(p)
    \/ \E p \in CondProcs : BoolSet(p)
    \/ \E p \in CondProcs : BoolUnset(p)
    \/ \E p \in CondProcs : BoolTest(p)
    \/ \E p \in CondProcs : BoolUnlock(p)
    \/ \E p \in CondProcs : BoolReturn(p)

SpecBool == InitBool /\ [][NextBool]_vars

\* ------------------------------------------------ SpecCond: a TimeoutCond
TimeoutCondOps == {"Wait", "WaitTimeout", "Broadcast"}
WaitOps == {"Wait", "WaitTimeout"}

\* the caller of Wait or WaitTimeout takes c.L before the call
CondAcquire(p, o) ==
    /\ o \in WaitOps
    /\ tcPc[p] = "idle"
    /\ tcCalls < MaxCondCalls
    /\ tcL = 0
    /\ tcL' = p
    /\ tcCalls' = tcCalls + 1
    /\ tcOp' = [tcOp EXCEPT ![p] = o]
    /\ tcPc' = [tcPc EXCEPT ![p] = "held"]
    /\ tcWoke' = [tcWoke EXCEPT ![p] = "none"]
    /\ UNCHANGED <<cn, closes, tcHandle>>
    /\ UNCHANGED <<chanVars, procVars, wfaVars, tgVars, taskVars, lbVars, updVars, flVars, logVars, subVars, ceVars, netVars, sockVars, boxVars, ginVars, trigVars, bcVars>>

\* Wait, WaitTimeout: `n := c.notifyChan()`
CondCapture(p) ==
    /\ tcPc[p] = "held"
    /\ tcHandle' = [tcHandle EXCEPT ![p] = cn]
    /\ tcPc' = [tcPc EXCEPT ![p] = "captured"]
    /\ UNCHANGED <<cn, closes, tcL, tcOp, tcWoke, tcCalls>>
    /\ UNCHANGED <<chanVars, procVars, wfaVars, tgVars, taskVars, lbVars, updVars, flVars, logVars, subVars, ceVars, netVars, sockVars, boxVars, ginVars, trigVars, bcVars>>

\* Wait, WaitTimeout: `c.L.Unlock()`
CondUnlock(p) ==
    /\ tcPc[p] = "captured"
    /\ tcL' = 0
    /\ tcPc' = [tcPc EXCEPT ![p] = "blocked"]
    /\ UNCHANGED <<cn, closes, tcOp, tcHandle, tcWoke, tcCalls>>
    /\ UNCHANGED <<chanVars, procVars, wfaVars, tgVars, taskVars, lbVars, updVars, flVars, logVars, subVars, ceVars, netVars, sockVars, boxVars, ginVars, trigVars, bcVars>>

\* Wait: `<-n`; WaitTimeout: `case <-n:`; a receive from n proceeds once n
\* is closed
CondNotified(p) ==
    /\ tcPc[p] = "blocked"
    /\ closes[tcHandle[p]] > 0
    /\ tcWoke' = [tcWoke EXCEPT ![p] = "notify"]
    /\ tcPc' = [tcPc EXCEPT ![p] = "woken"]
    /\ UNCHANGED <<cn, closes, tcL, tcOp, tcHandle, tcCalls>>
    /\ UNCHANGED <<chanVars, procVars, wfaVars, tgVars, taskVars, lbVars, updVars, flVars, logVars, subVars, ceVars, netVars, sockVars, boxVars, ginVars, trigVars, bcVars>>

\* WaitTimeout: `case <-time.After(t):`
CondTimeout(p) ==
    /\ tcPc[p] = "blocked"
    /\ tcOp[p] = "WaitTimeout"
    /\ tcWoke' = [tcWoke EXCEPT ![p] = "timeout"]
    /\ tcPc' = [tcPc EXCEPT ![p] = "woken"]
    /\ UNCHANGED <<cn, closes, tcL, tcOp, tcHandle, tcCalls>>
    /\ UNCHANGED <<chanVars, procVars, wfaVars, tgVars, taskVars, lbVars, updVars, flVars, logVars, subVars, ceVars, netVars, sockVars, boxVars, ginVars, trigVars, bcVars>>

\* Wait, WaitTimeout: `c.L.Lock()`, then the method returns
CondRelock(p) ==
    /\ tcPc[p] = "woken"
    /\ tcL = 0
    /\ tcL' = p
    /\ tcPc' = [tcPc EXCEPT ![p] = "returned"]
    /\ UNCHANGED <<cn, closes, tcOp, tcHandle, tcWoke, tcCalls>>
    /\ UNCHANGED <<chanVars, procVars, wfaVars, tgVars, taskVars, lbVars, updVars, flVars, logVars, subVars, ceVars, netVars, sockVars, boxVars, ginVars, trigVars, bcVars>>

\* the caller of Wait or WaitTimeout releases c.L after the call
CondRelease(p) ==
    /\ tcPc[p] = "returned"
    /\ tcL' = IF tcL = p THEN 0 ELSE tcL
    /\ tcPc' = [tcPc EXCEPT ![p] = "idle"]
    /\ UNCHANGED <<cn, closes, tcOp, tcHandle, tcWoke, tcCalls>>
    /\ UNCHANGED <<chanVars, procVars, wfaVars, tgVars, taskVars, lbVars, updVars, flVars, logVars, subVars, ceVars, netVars, sockVars, boxVars, ginVars, trigVars, bcVars>>

\* Broadcast: `n := make(chan struct{})` and the atomic.SwapPointer that
\* installs it and gives the channel that was installed; the lock is not
\* needed
CondSwap(p) ==
    /\ tcPc[p] = "idle"
    /\ tcCalls < MaxCondCalls
    /\ cn < MaxBroadcasts
    /\ tcCalls' = tcCalls + 1
    /\ tcOp' = [tcOp EXCEPT ![p] = "Broadcast"]
    /\ tcHandle' = [tcHandle EXCEPT ![p] = cn]
    /\ cn' = cn + 1
    /\ tcPc' = [tcPc EXCEPT ![p] = "swapped"]
    /\ UNCHANGED <<closes, tcL, tcWoke>>
    /\ UNCHANGED <<chanVars, procVars, wfaVars, tgVars, taskVars, lbVars, updVars, flVars, logVars, subVars, ceVars, netVars, sockVars, boxVars, ginVars, trigVars, bcVars>>

\* Variant: Broadcast closes the channel it has installed.
ChanToCloseNew(old, new) == new

\* Broadcast: `close(*(*chan struct{})(ptrOld))`
ChanToClose(old, new) == old

\* Broadcast: the close, then the method returns
CondClose(p) ==
    /\ tcPc[p] = "swapped"
    /\ closes' = [closes EXCEPT ![ChanToClose(tcHandle[p], tcHandle[p] + 1)] = @ + 1]
    /\ tcPc' = [tcPc EXCEPT ![p] = "idle"]
    /\ UNCHANGED <<cn, tcL, tcOp, tcHandle, tcWoke, tcCalls>>
    /\ UNCHANGED <<chanVars, procVars, wfaVars, tgVars, taskVars, lbVars, updVars, flVars, logVars, subVars, ceVars, netVars, sockVars, boxVars, ginVars, trigVars, bcVars>>

\* NewTimeoutCond(l)
InitCond ==
    /\ InitChans /\ InitProcs /\ InitNoWFA /\ InitNoTG /\ InitNoTask
    /\ InitNoLogBuffer /\ InitNoUpdate /\ InitNoFlags /\ InitNoLogger /\ InitNoSubstring
    /\ InitNoCollected /\ InitNoListener /\ InitNoSocket /\ InitNoBox /\ InitNoGin
    /\ InitNoTrigger /\ InitNoBoolCondition
    /\ cn = 0
    /\ closes = [h \in 0..MaxBroadcasts |-> 0]
    /\ tcL = 0
    /\ tcPc = [p \in CondProcs |-> "idle"]
    /\ tcOp = [p \in CondProcs |-> "none"]
    /\ tcHandle = [p \in CondProcs |-> 0]
    /\ tcWoke = [p \in CondProcs |-> "none"]
    /\ tcCalls = 0

NextCond ==
    \/ \E p \in CondProcs, o \in WaitOps : CondAcquire(p, o)
    \/ \E p \in CondProcs : CondCapture(p)
    \/ \E p \in CondProcs : CondUnlock(p)
    \/ \E p \in CondProcs : CondNotified(p)
    \/ \E p \in CondProcs : CondTimeout(p)
    \/ \E p \in CondProcs : CondRelock(p)
    \/ \E p \in CondProcs : CondRelease(p)
    \/ \E p \in CondProcs : CondSwap(p)
    \/ \E p \in CondProcs : CondClose(p)

SpecCond == InitCond /\ [][NextCond]_vars

\* the steps of a goroutine inside a method, without the timer, and the
\* release of the lock by the caller after Wait or WaitTimeout
CondRun(p) ==
    \/ CondCapture(p) \/ CondUnlock(p) \/ CondNotified(p)
    \/ CondRelock(p) \/ CondRelease(p) \/ CondClose(p)

\* The goroutines inside a method keep running, and a caller that has the
\* lock after Wait or WaitTimeout releases it; no timer needs to fire.
FairCond == \A p \in CondProcs : WF_vars(CondRun(p))

FairSpecCond == SpecCond /\ FairCond

\* ------------ SpecGroup: WaitAndStop of any group, the empty one included
\* The StopChans that StartTasks gets from a group of up to NumChans tasks:
\* member i is a NoopTask wrapping StopChan i, or a SetupTask or CleanupTask,
\* whose Start returns StopChan{}.
GroupChannels ==
    UNION {{chs \in [1..n -> Handles] : \A i \in 1..n : chs[i] \in {NoopStart(i), NilHandle}} :
           n \in 0..NumChans}

\* `channels := group.StartTasks(&wg)` for such a group
GroupStartTasks ==
    /\ tgPc = "start"
    /\ channels' \in GroupChannels
    /\ wfaPc' = "call"
    /\ tgPc' = "waitAny"
    /\ UNCHANGED <<wfaI, validCases, wfaRet, stopWorker, tgReason, collectI,
                   numErrors, tgRet, tgEnvChan, chanVars, procVars>>
    /\ UNCHANGED <<taskVars, miscVars>>
    /\ UNCHANGED wdVars

NextGroup ==
    \/ GroupStartTasks
    \/ WFAStart
    \/ WFABuild
    \/ WFAAfterLoop
    \/ WFASelect
    \/ TGAfterWait
    \/ TGSpawn
    \/ \E i \in Tasks : TGWorkerStop(i)
    \/ \E i \in Tasks : TGWorkerDone(i)
    \/ TGStopReturn
    \/ TGJoin
    \/ TGCollect
    \/ TGReturn
    \/ \E k \in Tasks : EnvStop(k)
    \/ EnvReturn
    \/ \E p \in AllProcs : LockStep(p)
    \/ \E p \in AllProcs : PerformStep(p)
    \/ \E p \in AllProcs : FlipStep(p)
    \/ \E p \in AllProcs : UnlockStep(p)
    \/ \E c \in Chans : BridgeWake(c)
    \/ \E c \in Chans : BridgeClose(c)

SpecGroup == InitTG /\ [][NextGroup]_vars

\* -------------------------------------------------- claims on the StopChan

\* a stop call on c is between its entry and its return
StopInProgress(c) ==
    \E p \in AllProcs : op[p] \in StopOps /\ recv[p] = c /\ pc[p] # "done"

\* C1: the stopped flag of a StopChan never goes back to false, and while it
\* is set no stop call changes the stored error or executes its function.
C1_StopOnce ==
    [][\A c \in Chans :
          stopped[c] =>
             /\ stopped'[c]
             /\ err'[c] = err[c]
             /\ \A p \in AllProcs :
                   (op'[p] \in StopOps /\ recv'[p] = c /\ ran'[p]) => ran[p]]_vars

\* a stop call with a function and an error found the StopChan stopped and returned
C1_Witness ==
    \E p \in Procs :
       /\ pc[p] = "done" /\ op[p] = "StopErrFunc" /\ fn[p] = "user"
       /\ recv[p] \in Chans /\ stopped[recv[p]]
       /\ ~ran[p] /\ arg[p] # Nil /\ err[recv[p]] # arg[p]

\* C2: once every stop call on a StopChan has returned, it is stopped, exactly
\* one call made the transition, Err() is that call's error (absent for
\* Stop()), and the error of a stopped StopChan never changes.
C2_OneError ==
    /\ [](\A c \in Chans :
            ((\E p \in AllProcs : op[p] \in StopOps /\ recv[p] = c /\ pc[p] = "done")
               /\ ~StopInProgress(c))
            => (Stopped(c) /\ Len(trans[c]) = 1 /\ Err(c) = trans[c][1]))
    /\ [][\A c \in Chans : Stopped(c) => Err(c)' = Err(c)]_vars

\* StopErr(e1) and StopErr(e2) have both returned on the same StopChan
C2_Witness ==
    \E p, q \in Procs :
       /\ pc[p] = "done" /\ pc[q] = "done"
       /\ op[p] = "StopErr" /\ op[q] = "StopErr"
       /\ recv[p] \in Chans /\ recv[q] = recv[p]
       /\ arg[p] = "e1" /\ arg[q] = "e2"
       /\ Err(recv[p]) = "e2"

\* C3: Err() is absent as long as the StopChan is not stopped.
C3_ErrNilWhileRunning ==
    \A c \in Chans : ~stopped[c] => Err(c) = Nil

StoppedEntries == {i \in 1..Len(channels) : channels[i] # NilHandle /\ stopped[channels[i]]}

\* C5: an index WaitForAny returns is that of an initialized, stopped entry
\* (so of the only stopped one when there is exactly one), and once an
\* initialized entry is stopped the call returns.
C5_WaitForAny ==
    /\ [](wfaPc = "done" /\ wfaRet >= 0 =>
            /\ (wfaRet + 1) \in StoppedEntries
            /\ \A k \in 1..Len(channels) : StoppedEntries = {k} => wfaRet = k - 1)
    /\ ((wfaPc # "done" /\ StoppedEntries # {}) ~> (wfaPc = "done"))

\* the call returned the second entry of a list whose first entry is uninitialized
C5_Witness ==
    /\ wfaPc = "done" /\ wfaRet = 1
    /\ channels[1] = NilHandle
    /\ StoppedEntries = {2}

\* C6: WaitForAny returns -1 exactly for the lists that are empty or hold
\* only uninitialized entries, and it does so without entering the select.
C6_MinusOneIff ==
    /\ [](wfaPc = "done" => (wfaRet = -1 <=> AllNil(channels)))
    /\ [][(wfaPc # "done" /\ wfaPc' = "done" /\ wfaRet' = -1) => wfaPc # "select"]_vars

\* the call returned -1 for a list of two uninitialized entries
C6_Witness ==
    wfaPc = "done" /\ wfaRet = -1 /\ Len(channels) = 2 /\ AllNil(channels)

\* C7 as stated: on a non-empty list of uninitialized entries the call never returns.
C7_NeverReturns ==
    (Len(channels) > 0 /\ AllNil(channels)) => wfaPc # "done"

\* C7 as amended: on a non-empty list of uninitialized entries the call
\* returns, and returns -1.
C7_ReturnsMinusOne ==
    (Len(channels) > 0 /\ AllNil(channels)) ~> (wfaPc = "done" /\ wfaRet = -1)

\* the call on [StopChan{}, StopChan{}] has returned
C7_Witness ==
    wfaPc = "done" /\ Len(channels) = MaxList /\ AllNil(channels) /\ validCases = 0

\* ------------------------------------------------- claims on the TaskGroup

\* C8: when WaitAndStop returns, the returned task is the one whose StopChan
\* was stopped from outside, Stop() has been called and has returned on every
\* task of the group, and every task's StopChan is stopped; and once one
\* StopChan is stopped, WaitAndStop returns.
C8_WaitAndStop ==
    /\ [](tgPc = "done" =>
            /\ tgRet = tgEnvChan
            /\ tgRet \in Tasks
            /\ \A i \in Tasks : stopWorker[i] = "done" /\ Stopped(channels[i]))
    /\ ((tgEnvChan # 0) ~> (tgPc = "done"))

\* WaitAndStop returned the second task, which had been stopped with an error
C8_Witness ==
    /\ tgPc = "done" /\ tgRet = 2 /\ tgEnvChan = 2
    /\ Err(channels[2]) = "e1" /\ numErrors = 1
    /\ \A i \in Tasks : stopWorker[i] = "done"

\* ------------------------------------------------- claims on the tasks

\* The worker goroutine of the task is gone.
WorkerExited == loopPc \in {"none", "exited"}

\* C9: in every state in which the StopChan returned by Start is stopped, the
\* worker of the task has exited: it is not in the loop, in an iteration, in
\* a handler or before or in its hook.
C9_WorkerExited ==
    (taskPc = "started" /\ startRet # NilHandle /\ stopped[startRet]) => WorkerExited

\* C10: no call of Stop() after Start faults, whatever the kind of the task
\* and whether or not Start returned a stopped StopChan with a configuration
\* error.
C10_StopNeverFaults == fault = FALSE

\* the first invocation of Loop has returned a value other than nil, and no
\* worker of the environment has called Stop()
FirstResultStops ==
    /\ kind = "Loop"
    /\ calls = 0
    /\ Len(results) >= 1
    /\ results[1] # Nil

\* C11: without an external Stop(), a LoopTask whose first Loop invocation
\* returns StopLoopTask or an error E runs exactly one iteration and ends
\* stopped, with Err() absent for StopLoopTask and Err() = E otherwise.
C11_OneIteration ==
    /\ [](FirstResultStops =>
            /\ iterations = 1
            /\ Len(results) = 1
            /\ loopPc = "exited" =>
                  /\ Stopped(startRet)
                  /\ Err(startRet) = (IF results[1] = StopLoopTask THEN Nil ELSE results[1]))
    /\ (FirstResultStops ~> (loopPc = "exited" \/ calls > 0))

\* the worker has exited after one iteration that returned e1
C11_Witness ==
    /\ FirstResultStops /\ results = <<"e1">> /\ iterations = 1
    /\ loopPc = "exited" /\ Stopped(startRet) /\ Err(startRet) = "e1"

\* C12: the Cleanup function of a CleanupTask is executed at most once however
\* many Stop() calls run, in sequence or concurrently; it has been executed
\* when any Stop() returns; and Start does not execute it.
C12_CleanupOnce ==
    (kind = "Cleanup" /\ hasHook) =>
        /\ cleanupRuns <= 1
        /\ calls = 0 => cleanupRuns = 0
        /\ \A p \in Procs : pc[p] = "done" => cleanupRuns = 1

\* two concurrent Stop() calls have both returned, Cleanup ran once
C12_Witness ==
    /\ kind = "Cleanup" /\ hasHook /\ taskPc = "started"
    /\ \A p \in Procs : pc[p] = "done" /\ op[p] = "Stop"
    /\ cleanupRuns = 1

\* C13: for a Command whose subprocess was spawned, IsFinished() is false
\* while the StopChan returned by Start is not stopped; when it is stopped,
\* IsFinished() is true, the outcome is recorded, and Success() is true after
\* an exit with status 0 and false after an exit with another status; for a
\* Command that was not started IsFinished() and Success() are false.
C13_CommandOutcome ==
    kind = "Command" =>
        /\ taskPc = "new" => ~IsFinished /\ ~Success
        /\ (taskPc = "started" /\ cfgOk) =>
              IF Stopped(startRet)
              THEN /\ IsFinished
                   /\ cmdState # "nil" \/ cmdStateErr # Nil
                   /\ procState = "exit0" => Success
                   /\ procState = "exitN" => ~Success
              ELSE ~IsFinished

\* The stop sequence of WaitAndStop, group.Stop() and wg.Wait(), is complete
\* at this position of WaitAndStop.
StopSequenceComplete(at) == at \in {"collect", "done", "panic"}

\* C14: the watchdog of WaitAndStop aborts the process only while the stop
\* sequence is not complete: once all tasks are stopped and all workers are
\* joined, no watchdog abort follows.
C14_NoAbortAfterStop == abortAt # "none" => ~StopSequenceComplete(abortAt)

\* ------------------------------------------------- claims on the LogBuffer

Min2(a, b) == IF a < b THEN a ELSE b

\* the k most recently pushed of the first n messages, oldest first
MostRecent(k, n) == [i \in 1..k |-> n - k + i]

\* C15: PrintMessages(w, n) writes, for n > 0, exactly the min(n, C, pushed)
\* most recently pushed lines, oldest first, and nothing for n <= 0.
C15_PrintsMostRecent ==
    printed =>
        out = IF printArg <= 0
              THEN <<>>
              ELSE MostRecent(Min2(printArg, Min2(lbCap, printAt)), printAt)

\* ---------------------------------------------- claims on CliLogBox.Update

\* the lines writeContent has emitted: the newlines, and a last line without one
EmittedLines ==
    Newlines(content) + (IF content # <<>> /\ content[Len(content)] # NL THEN 1 ELSE 0)

\* C16: with LogLines > 0 and a positive content budget, content of more
\* lines than the budget is cut to the budget and the separator line starts
\* with the truncation indicator, however the content is split into Write
\* calls; content within the budget is passed on whole and not marked.
C16_TruncationMarked ==
    (updPc = "done" /\ logLines > 0 /\ ncMax > 0) =>
        IF EmittedLines > ncMax
        THEN Newlines(ncOut) = ncMax /\ ncTrunc /\ sepDots = "dots"
        ELSE ncOut = content /\ ~ncTrunc /\ sepDots # "dots"

\* C37: with LogLines > 0, the lines of content passed on to the box are at
\* most the content budget, (height - 3) - LogLines, which max_lines holds;
\* when that budget is zero or negative, no line of content is passed on.
C37_ContentBudget ==
    logLines > 0 => Newlines(ncOut) <= (IF ncMax > 0 THEN ncMax ELSE 0)

\* ---------------------------------------------------- claims on flags.go

\* s has no leading and no trailing whitespace
Trimmed(s) == s = <<>> \/ (s[1] # Space /\ s[Len(s)] # Space)
\* s contains none of the characters of set
Without(s, set) == \A i \in 1..Len(s) : s[i] \notin set

\* C17: pairs whose keys and values are trimmed and contain no '=' and no ','
\* (empty keys and values and repeated keys included) are returned
\* unchanged, in order, by ParseOrderedMap(FormatOrderedMap(keys, values)).
C17_OrderedMapRoundTrip ==
    (/\ textFrom = "FormatOrderedMap" /\ parsed = "ParseOrderedMap"
     /\ \A i \in 1..Len(inKeys) :
            /\ Trimmed(inKeys[i]) /\ Without(inKeys[i], {",", "="})
            /\ Trimmed(inValues[i]) /\ Without(inValues[i], {",", "="}))
    => (outKeys = inKeys /\ outValues = inValues)

\* the positions before, between and after the entries of s: 0, the commas, Len(s) + 1
Cuts(s) == {0, Len(s) + 1} \cup {i \in 1..Len(s) : s[i] = ","}
\* the k-th of them
Cut(s, k) == CHOOSE c \in Cuts(s) : Cardinality({d \in Cuts(s) : d < c}) = k - 1
\* s[lo..hi] without the whitespace around it
Core(s, lo, hi) ==
    LET P == {i \in lo..hi : s[i] # Space}
    IN  IF P = {} THEN <<>>
        ELSE SubSeq(s, CHOOSE i \in P : \A j \in P : i <= j, CHOOSE i \in P : \A j \in P : i >= j)
\* the trimmed comma-separated entries of s
Entries(s) == [k \in 1..(Cardinality(Cuts(s)) - 1) |-> Core(s, Cut(s, k) + 1, Cut(s, k + 1) - 1)]
NonEmpty(s) == s # <<>>

\* C18: ParseSlice returns the non-empty trimmed comma-separated entries of
\* its input in order (none for a blank input), and returns the list itself
\* for the text FormatStringSlice makes of a list of non-empty trimmed
\* strings without commas.
C18_ParseSlice ==
    parsed = "ParseSlice" =>
        /\ outList = SelectSeq(Entries(text), NonEmpty)
        /\ (\A i \in 1..Len(text) : text[i] = Space) => outList = <<>>
        /\ (/\ textFrom = "FormatStringSlice"
            /\ \A i \in 1..Len(inList) :
                   inList[i] # <<>> /\ Trimmed(inList[i]) /\ Without(inList[i], {","}))
           => outList = inList

C18_Witness ==
    /\ parsed = "ParseSlice" /\ textFrom = "FormatStringSlice"
    /\ inList = <<<<"a", Space, "b">>, <<"=">>, <<"a">>>>
    /\ outList = inList

\* key and value of the trimmed entry e: around the first '=', or e and the
\* empty string
KeyOf(e) ==
    LET P == {i \in 1..Len(e) : e[i] = "="}
    IN  IF P = {} THEN e ELSE Core(e, 1, (CHOOSE i \in P : \A j \in P : i <= j) - 1)
ValueOf(e) ==
    LET P == {i \in 1..Len(e) : e[i] = "="}
    IN  IF P = {} THEN <<>> ELSE Core(e, (CHOOSE i \in P : \A j \in P : i <= j) + 1, Len(e))
\* an entry that gives a key or a value
HasKeyOrValue(e) == KeyOf(e) # <<>> \/ ValueOf(e) # <<>>

\* C19: ParseOrderedMap returns, in input order, the trimmed key and value
\* around the first '=' of every comma-separated entry, an entry without
\* '=' as a key with the empty value, and nothing for an empty entry;
\* ParseMap maps every key to the value of its last entry.
C19_ParseOrderedMap ==
    /\ (parsed = "ParseOrderedMap" /\ textFrom = "input") =>
          LET es == SelectSeq(Entries(text), HasKeyOrValue)
          IN  /\ outKeys = [i \in 1..Len(es) |-> KeyOf(es[i])]
              /\ outValues = [i \in 1..Len(es) |-> ValueOf(es[i])]
    /\ (parsed = "ParseMap" /\ textFrom = "input") =>
          LET keys == ParseOrderedMap(text)[1]
              values == ParseOrderedMap(text)[2]
          IN  /\ DOMAIN outMap = {keys[i] : i \in 1..Len(keys)}
              /\ \A i \in 1..Len(keys) :
                     (\A j \in (i + 1)..Len(keys) : keys[j] # keys[i]) => outMap[keys[i]] = values[i]

\* the pairs of a KeyValueStringSlice
PairsOf(keys, values) == [i \in 1..Len(keys) |-> <<keys[i], values[i]>>]
\* the pairs before Delete that have another key than the deleted one
OtherKey(pair) == pair[1] # delKey[1]

\* C20: after Delete(key) no entry has the key, the other pairs are there in
\* their order with their values, and Keys and Values have the same length.
C20_DeleteAll ==
    delKey # "none" =>
        /\ Len(kvKeys) = Len(kvValues)
        /\ \A i \in 1..Len(kvKeys) : kvKeys[i] # delKey[1]
        /\ PairsOf(kvKeys, kvValues) = SelectSeq(PairsOf(kvBefore[1], kvBefore[2]), OtherKey)

\* ------------------------------------------------ claims on ConfigureLogger

\* C21: a configured logger has the level debug if verbose is set, else
\* warn if quiet is set, else error if very-quiet is set, else info.
C21_LevelPrecedence ==
    \A l \in DOMAIN level :
        configured[l] > 0 =>
            level[l] = IF LogVerbose THEN "debug"
                       ELSE IF LogQuiet THEN "warn"
                       ELSE IF LogVeryQuiet THEN "error"
                       ELSE "info"

\* ------------------------------------------------------ claims on Substring

\* C22: for a string of ASCII letters and 0 <= from <= to <= len(s),
\* Substring(s, from, to) is s[from:to].
C22_SubstringSlice ==
    (/\ subDone
     /\ \A i \in 1..Len(subStr) : subStr[i] \in {"a", "b"}
     /\ subFrom <= subTo /\ subTo <= Len(subStr))
    => subResult = SubSeq(subStr, subFrom + 1, subTo)

\* an invocation of Loop of a LoopTask has returned an error other than
\* StopLoopTask, as the k-th result
ErrorResult(k) ==
    /\ kind = "Loop"
    /\ k \in 1..Len(results)
    /\ k < MaxIter
    /\ results[k] \in Errs

C24_HookBeforeStopped ==
    (kind = "Loop" /\ hasHook /\ taskPc = "started") =>
        /\ hookRuns <= 1
        /\ hookRuns = 1 => loopPc = "exited"
        /\ Stopped(startRet) => hookRuns = 1

\* the StopChan of the TimeoutTask
TimeoutTaskStarted == kind = "Timeout" /\ taskPc = "started"

\* C25: a started TimeoutTask is stopped once, with the timeout error by its
\* worker after the timeout has elapsed or with no error by a Stop(),
\* whichever takes effect first; the outcome does not change afterwards,
\* and the worker exits with the task stopped.
C25_TimeoutOutcome ==
    /\ [](TimeoutTaskStarted =>
            /\ Len(trans[LoopChan]) <= 1
            /\ Stopped(startRet) =>
                  /\ trans[LoopChan] = <<Err(startRet)>>
                  /\ Err(startRet) \in {Nil, TimeoutErr}
                  /\ Err(startRet) = TimeoutErr => loopPc \in {"stopErr", "exited"}
                  /\ Err(startRet) = Nil => calls > 0
            /\ loopPc = "exited" => Stopped(startRet)
            /\ calls = 0 /\ loopPc = "exited" => Err(startRet) = TimeoutErr)
    /\ (TimeoutTaskStarted ~> (loopPc = "exited" /\ Stopped(startRet)))

\* the timer has expired and the worker is in StopErr, but a Stop() has
\* stopped the task before
C25_Witness ==
    /\ TimeoutTaskStarted /\ loopPc = "stopErr"
    /\ Stopped(startRet) /\ Err(startRet) = Nil /\ pc[LoopProc] = "done"

\* ------------------------------------------------ claims on CollectErrors

RECURSIVE ErrorsUpTo(_)
\* the errors of the first n StopChans of the list, with their indices
ErrorsUpTo(n) ==
    IF n = 0 THEN <<>>
    ELSE IF channels[n] # NilHandle /\ Err(channels[n]) # Nil
    THEN Append(ErrorsUpTo(n - 1), <<n, Err(channels[n])>>)
    ELSE ErrorsUpTo(n - 1)

\* C26: CollectErrors goes through the list in order; every StopChan it has
\* passed is uninitialized or stopped, the callback has been called once,
\* in order, for every passed StopChan with an error, and the number
\* returned is the number of these calls; it returns after the whole list.
C26_CollectErrors ==
    tgPc \in {"collect", "collected"} /\ tgReason = -1 =>
        /\ collectI \in 1..(Len(channels) + 1)
        /\ \A k \in 1..(collectI - 1) : channels[k] = NilHandle \/ stopped[channels[k]]
        /\ collected = ErrorsUpTo(collectI - 1)
        /\ numErrors = Len(collected)
        /\ tgPc = "collected" => (collectI = Len(channels) + 1 /\ tgRet = numErrors)

\* returned from a list of an uninitialized StopChan and a StopChan stopped
\* with an error
C26_Witness ==
    /\ tgPc = "collected" /\ tgReason = -1
    /\ channels = <<NilHandle, 1>> /\ collected = <<<<2, "e1">>>> /\ tgRet = 1

\* ------------------------------------------------ claims on WaitChan, Wait

\* C27: a StopChan gets at most one wait channel and one goroutine for it,
\* every WaitChan() returns that channel; the channel is closed only when
\* the StopChan is stopped, stays closed, and is closed eventually once the
\* StopChan is stopped; Wait() returns only when the StopChan is stopped,
\* and then it does return.
C27_WaitChan ==
    /\ [](\A c \in Chans :
            /\ spawned[c] <= 1
            /\ waitChan[c] # "nil" <=> spawned[c] = 1
            /\ waitChan[c] = "closed" => stopped[c])
    /\ [](\A p \in Procs :
            (pc[p] = "done" /\ recv[p] # NilHandle) =>
                /\ op[p] = "WaitChan" => (ret[p] = "waitChan" /\ waitChan[recv[p]] # "nil")
                /\ op[p] = "Wait" => stopped[recv[p]])
    /\ [][\A c \in Chans : waitChan[c] = "closed" => waitChan'[c] = "closed"]_vars
    /\ \A c \in Chans : (stopped[c] /\ waitChan[c] # "nil") ~> (waitChan[c] = "closed")
    /\ \A p \in Procs : (op[p] = "Wait" /\ pc[p] = "lock" /\ stopped[recv[p]]) ~> (pc[p] # "lock")

\* two workers are in WaitChan() at the same time before the channel
\* exists, one has created it
C27_Witness ==
    /\ op[1] = "WaitChan" /\ pc[1] = "done"
    /\ op[2] = "WaitChan" /\ pc[2] = "lock"
    /\ spawned[WaitHandle] = 1 /\ ~stopped[WaitHandle]

\* ------------------------------------- claims on IfStopped, ..., Execute
CallbackOps == {"IfStopped", "IfNotStopped", "IfElseStopped", "Execute"}

\* a worker is inside the function it passed to one of the CallbackOps
InCallback(p) == op[p] \in CallbackOps /\ pc[p] = "callback"

HandlerRunning == loopPc = "handler" /\ pc[LoopProc] = "callback" /\ body = "handler"

\* C29: the Handler of a TCP or UDP listener task is entered and runs only
\* while the StopChan of the task is not stopped; no connection is both
\* passed to the Handler and closed, or passed or closed twice, and once
\* the Loop is past its TCP connection, that was passed to the Handler or
\* closed.
C29_ListenerDispatch ==
    /\ [](HandlerRunning => ~stopped[loopChan])
    /\ [][connHandled' # connHandled => (~stopped[loopChan] /\ ~stopped'[loopChan])]_vars
    /\ [](\A i \in 1..accepted :
            /\ connHandled[i] + connClosed[i] <= 1
            /\ kind = "UDPListener" => connClosed[i] = 0
            /\ (kind = "TCPListener" /\ (i < accepted \/ loopPc \notin {"dispatch", "handler"}))
                  => connHandled[i] + connClosed[i] = 1)

\* the first connection was passed to the Handler; Stop() took effect after
\* the second was accepted, which was closed
C29_Witness ==
    /\ kind = "TCPListener"
    /\ accepted = 2
    /\ connHandled = <<1, 0>>
    /\ connClosed = <<0, 1>>
    /\ stopped[loopChan]

\* C30: a stop-check helper (Stopped, IfStopped, IfNotStopped,
\* IfElseStopped) that the Handler of a TCPListenerTask calls on the task
\* returns: the Handler does not stay blocked in the call.
C30_HelperReturns ==
    (kind = "TCPListener" /\ HandlerRunning /\ hpc = "lock") ~> (hpc = "done")

\* a worker of the environment is in Stop() of the listener task, or has returned from it
StopCalled == \E p \in Procs : op[p] = "StopFunc" /\ fn[p] = "taskStop"
StopReturned == \E p \in Procs : op[p] = "StopFunc" /\ fn[p] = "taskStop" /\ pc[p] = "done"

\* C31: the listening socket of a started listener task is closed at most
\* once, and once when a Stop() has returned; the error of the accept on
\* the closed socket is not logged; after a Stop() call the worker exits
\* (so the accept on the closed socket has returned), unless its Handler
\* never returns;
\* when the worker has exited the StopChan is stopped, and its error is
\* always absent.
C31_ListenerStop ==
    /\ [](/\ sockCloses <= 1
          /\ "closed" \notin logged
          /\ StopReturned => (sockCloses = 1 /\ listener = "nil" /\ Stopped(loopChan))
          /\ loopPc = "exited" => Stopped(loopChan)
          /\ loopChan # NilHandle => Err(loopChan) = Nil)
    /\ StopCalled ~> (loopPc = "exited" \/ (HandlerRunning /\ hpc = "lock"))

\* two Stop() calls have returned and the worker, which was in the accept
\* when the socket was closed, has exited
C31_Witness ==
    /\ \A p \in Procs : op[p] = "StopFunc" /\ pc[p] = "done"
    /\ loopPc = "exited"
    /\ results = <<Nil>>
    /\ accepted = 0
    /\ sockCloses = 1

\* ------------------------------------------------ claims on a failed Start
\* the kinds of task whose Start can fail
FailingKinds == ListenerKinds \cup {"Command", "CliLogBox"}

\* C32: when Start of a listener task, a Command or a CliLogBoxTask has
\* failed, it has returned a stopped StopChan with the error of the failure,
\* there is no worker, the subprocess is not set, the StopHook of a listener
\* task has run once if there is one (also after later Stop() calls), and no
\* logger output is replaced.
C32_FailedStart ==
    (taskPc = "started" /\ kind \in FailingKinds /\ ~cfgOk) =>
        /\ startRet # NilHandle
        /\ Stopped(startRet)
        /\ Err(startRet) = CfgErr
        /\ loopPc = "none"
        /\ ~cmdProc
        /\ kind \in ListenerKinds => hookRuns = (IF hasHook THEN 1 ELSE 0)
        /\ \A l \in Loggers : loggerOut[l] = "stderr"

\* Start of a UDP listener with a StopHook has failed, and a Stop() called
\* afterwards has returned
C32_Witness ==
    /\ kind = "UDPListener" /\ ~cfgOk /\ hasHook
    /\ taskPc = "started"
    /\ hookRuns = 1
    /\ \E p \in Procs : op[p] = "StopFunc" /\ pc[p] = "done"

\* ------------------------------------------------------ claims on a GinTask
\* a Stop() of the GinTask has not returned yet
GinStopping == \E p \in Procs : op[p] = "GinStop" /\ pc[p] \notin {"idle", "done"}

\* C33: once the StopChan of a GinTask is stopped and no Stop() is running,
\* the ShutdownHook has run if there is one, and the error of the StopChan
\* is the combination of the error of the serve loop (absent for the
\* server-closed error) and the error the last Stop() recorded: absent,
\* one of them, or the MultiError of both.
C33_GinError ==
    (Stopped(GinChan) /\ ginPc # "none" /\ ~GinStopping) =>
        /\ ginHookRuns = (IF ginHookSet THEN 1 ELSE 0)
        /\ Err(GinChan) = GinError(serveErr, shutdownErr)

\* C34: after a Stop() call on a started GinTask the StopChan of the task
\* is stopped eventually.
C34_GinStop ==
    (\E p \in Procs : op[p] = "GinStop") ~> Stopped(GinChan)

\* ------------------------------------------------ claims on a CliLogBoxTask
\* C35: the channel of the refresh triggers never holds more than one
\* value, no TriggerUpdate blocks, however many are made between two
\* refreshes, and an interval sleep with a pending trigger ends without its
\* timer: by the trigger, or by the stop of the task.
C35_TriggerQueue ==
    /\ [](updateTrigger <= 1 /\ trigOut # "blocked")
    /\ (loopPc = "sleep" /\ updateTrigger > 0) ~> (loopPc # "sleep")

\* a trigger found the channel full, and the last interval sleep was ended
\* by the trigger that was pending
C35_Witness ==
    /\ triggers = MaxTriggers
    /\ trigOut = "default"
    /\ wake = "trigger"
    /\ updateTrigger = 0

\* the task was started and its StopChan is stopped
BoxStopped == taskPc = "started" /\ Stopped(loopChan)

\* C36: after a started CliLogBoxTask is stopped, its worker makes one final
\* refresh, after the loop has been left and with the loggers still
\* intercepted, then restores the loggers and exits; the loggers are
\* intercepted from Start to that moment, and afterwards every logger has
\* the output it had before Start.
C36_FinalRefresh ==
    /\ [](/\ finalRefreshes <= 1
          /\ (taskPc = "started" /\ loopPc # "exited") =>
                 \A l \in Loggers : loggerOut[l] = "noop"
          /\ loopPc = "restore" => finalRefreshes = 1
          /\ loopPc = "exited" => (finalRefreshes = 1 /\ loggerOut = originalOut))
    /\ [][finalRefreshes' # finalRefreshes => (loopPc = "hook" /\ Stopped(loopChan))]_vars
    /\ [][finalRefreshes = 1 => loopPc' \in {"restore", "exited"}]_vars
    /\ BoxStopped ~> (loopPc = "exited")

\* the task is stopped by Stop() during an interval sleep, after one
\* refresh of the loop; the worker has exited and the two loggers have
\* their different outputs again
C36_Witness ==
    /\ loopPc = "exited"
    /\ iterations = 1
    /\ wake = "stop"
    /\ finalRefreshes = 1
    /\ loggerOut["Log"] = "file"
    /\ loggerOut["StandardLogger"] = "stderr"
    /\ Err(loopChan) = Nil

\* ------------------------------------------------ claims on BoolCondition
\* C38: between two calls of Broadcast or Signal at most one WaitAndUnset
\* returns, whatever the number of workers blocked in it, and it returns
\* with the flag false; Wait returns with the flag true; Unset clears the
\* flag and takes no worker from the list of waiters.
C38_BoolCondition ==
    /\ [](/\ unsetSince <= 1
          /\ \A p \in CondProcs :
                bcPc[p] = "unlock" =>
                    /\ bcOp[p] = "WaitAndUnset" => ~Val
                    /\ bcOp[p] = "Wait" => Val)
    /\ [][\A p \in CondProcs :
             (bcOp[p] = "Unset" /\ bcPc[p] = "locked" /\ bcPc'[p] = "unlock") =>
                 /\ ~Val'
                 /\ notifyList' = notifyList
                 /\ \A q \in CondProcs : bcPc[q] = "waiting" => bcPc'[q] = "waiting"]_vars

\* one Broadcast has woken two workers blocked in WaitAndUnset: one has
\* returned, the other found the flag false and is blocked again
C38_Witness ==
    /\ bcOp[1] = "WaitAndUnset" /\ bcPc[1] = "done"
    /\ bcOp[2] = "WaitAndUnset" /\ bcPc[2] = "waiting"
    /\ bcOp[3] = "Broadcast" /\ bcPc[3] = "done"
    /\ wakeups = 2
    /\ bcCalls = 3

\* -------------------------------------------------- claims on TimeoutCond
\* a waiter has captured a channel that a Broadcast has taken out since
Notifiable(p) ==
    /\ tcOp[p] \in WaitOps
    /\ tcPc[p] \in {"captured", "blocked"}
    /\ tcHandle[p] < cn

\* C39: a waiter whose captured channel was taken out by a Broadcast, also
\* one that has not yet released the lock or not yet blocked, does not stay
\* in its wait: it is woken and returns holding the lock; the channel in use is never closed, so that
\* a waiter that captures it after a Broadcast is not woken by that
\* Broadcast; no channel is closed twice, and a finished Broadcast has
\* closed the channel it took out; Wait and WaitTimeout return with the
\* lock held, and a wait ended by a notification had its channel closed.
C39_TimeoutCond ==
    /\ [](/\ \A h \in 0..MaxBroadcasts : closes[h] <= 1
          /\ closes[cn] = 0
          /\ \A h \in 0..MaxBroadcasts :
                (h < cn /\ closes[h] = 0) =>
                    \E q \in CondProcs : tcPc[q] = "swapped" /\ tcHandle[q] = h
          /\ \A p \in CondProcs :
                /\ tcPc[p] = "returned" => tcL = p
                /\ (tcOp[p] \in WaitOps /\ tcWoke[p] = "notify") =>
                       (closes[tcHandle[p]] = 1 /\ tcHandle[p] < cn)
                /\ (tcPc[p] \in {"woken", "returned"} /\ tcOp[p] = "Wait") =>
                       tcWoke[p] = "notify")
    /\ []<>(\A p \in CondProcs : ~Notifiable(p) /\ tcPc[p] # "woken")

\* the Broadcast came between the Unlock and the receive of a Wait, which
\* has returned, and a waiter that came after the Broadcast is blocked
C39_Witness ==
    /\ tcOp[1] = "Wait" /\ tcPc[1] = "returned" /\ tcHandle[1] = 0
    /\ tcOp[2] = "Wait" /\ tcPc[2] = "blocked" /\ tcHandle[2] = 1
    /\ tcOp[3] = "Broadcast" /\ tcPc[3] = "idle"
    /\ closes[0] = 1 /\ closes[1] = 0

\* ---------------------------------------- claims on WaitAndStop of any group
\* C40: WaitAndStop of any group, also of the empty group and of a group
\* whose tasks all return StopChan{} from Start, does not fault, and the
\* task it returns is the member at the index that WaitForAny returned.
C40_GroupReturn ==
    /\ tgPc # "panic"
    /\ tgPc = "done" => (tgRet = tgReason + 1 /\ tgRet \in 1..Len(channels))

====
